---- MODULE Spec2Model ----
(***************************************************************************)
(* Breaking-Ball-Designer: the SSW engine (ssw.js), the worker that runs   *)
(* it (worker.js) and the coordinator in main.js that posts primary        *)
(* requests and trend sweeps to two workers.                               *)
(*                                                                         *)
(* Angles in radians are integers in units of pi/360 (PI == 360), so that  *)
(* DEG2RAD = PI/180 is the factor 2 and every angle the model uses is      *)
(* exact.                                                                  *)
(***************************************************************************)
EXTENDS Integers, Sequences, FiniteSets, TLC

\* ------------------------------------------------------------------ bounds

\* UI change events in one run of the coordinator.
MaxChanges == 2

\* ------------------------------------------------------------ JS constants

PI == 360

Null == [null |-> TRUE]

Undefined == "undefined"

Deg2Rad(d) == (d * PI) \div 180

\* ---------------------------------------------------------------- numbers
\* Lengths are integers in units of R/1000.  Math.sin and Math.cos return
\* R times the sine and cosine (Bhaskara's rational approximation, exact at
\* the multiples of 30 degrees), so a product with one of them is divided by R.

\* constants.js: the ball's radius.
R == 1000

\* constants.js: the radius of the seam tube.
SEAM_TUBE_RADIUS == 200

\* constants.js, scaled down: seam points, rotation steps, bins, slices.
SEAM_POINTS == 6

SSW_ROTATION_STEPS == 4

SSW_BINS == 8

SSW_SLICE_COUNT == 3

\* The number 1.0 of a normalised histogram cell: a cell divided by
\* SSW_ROTATION_STEPS and then by the number of slices stays an integer.
One == SSW_ROTATION_STEPS * SSW_SLICE_COUNT

Abs(x) == IF x < 0 THEN -x ELSE x

\* The JS remainder x % m: it takes the sign of x.
JsRem(x, m) == IF x >= 0 THEN x % m ELSE -((-x) % m)

Min(a, b) == IF a <= b THEN a ELSE b

Max(a, b) == IF a >= b THEN a ELSE b

\* Math.sin, times R.
Sin(a) ==
    LET u == a % (2 * PI)
        v == IF u <= PI THEN u ELSE u - PI
        h == (16 * R * v * (PI - v)) \div (5 * PI * PI - 4 * v * (PI - v))
    IN  IF u <= PI THEN h ELSE -h

\* Math.cos, times R.
Cos(a) == Sin(a + PI \div 2)

\* The arc tangent of a / b for 0 <= a <= b, b > 0.
Atan01(a, b) == ((PI \div 4) * a * b + 31 * a * (b - a)) \div (b * b)

\* Math.atan2(y, x), in (-PI, PI]; large arguments are scaled down first.
Atan2(y, x) ==
    LET k == Max(Abs(x), Abs(y)) \div (4 * R) + 1
        ax == Abs(x) \div k
        ay == Abs(y) \div k
        q == IF ax = 0 /\ ay = 0 THEN 0
             ELSE IF ay <= ax THEN Atan01(ay, ax)
             ELSE PI \div 2 - Atan01(ax, ay)
    IN  IF x >= 0 THEN (IF y >= 0 THEN q ELSE -q)
        ELSE (IF y >= 0 THEN PI - q ELSE -(PI - q))

\* Math.sqrt of a non-negative integer, rounded down.
RECURSIVE SqrtBetween(_, _, _)
SqrtBetween(n, lo, hi) ==
    IF hi - lo <= 1 THEN lo
    ELSE LET mid == (lo + hi) \div 2
         IN  IF mid * mid <= n THEN SqrtBetween(n, mid, hi)
             ELSE SqrtBetween(n, lo, mid)

Sqrt(n) == SqrtBetween(n, 0, 4 * R)

\* A JS array: the function f, with every element evaluated once.
Array(f) == f @@ <<>>

\* The sum f[0] + ... + f[n - 1].
RECURSIVE SumTo(_, _)
SumTo(f, n) == IF n = 0 THEN 0 ELSE SumTo(f, n - 1) + f[n - 1]

\* ----------------------------------------------------------------- three.js
\* A quaternion is the sequence of elementary rotations it stands for, the
\* first one applied first.

Vec3(x, y, z) == [x |-> x, y |-> y, z |-> z]

\* Vector3.normalize
Normalize(v) ==
    LET len == Sqrt(v.x * v.x + v.y * v.y + v.z * v.z)
        d == IF len = 0 THEN 1 ELSE len
    IN  Vec3((v.x * R) \div d, (v.y * R) \div d, (v.z * R) \div d)

\* Quaternion.setFromAxisAngle about a coordinate axis.
SetFromAxisAngle(axis, angle) == <<[kind |-> axis, angle |-> angle]>>

\* a.multiply(b): b is applied first.
Multiply(a, b) == b \o a

\* Quaternion.setFromEuler(new Euler(x, y, z, 'XYZ'))
SetFromEuler(x, y, z) ==
    Multiply(Multiply(SetFromAxisAngle("X", x), SetFromAxisAngle("Y", y)),
             SetFromAxisAngle("Z", z))

\* Quaternion.setFromUnitVectors((1, 0, 0), vTo)
SetFromUnitVectors(vTo) == <<[kind |-> "arc", to |-> vTo]>>

\* One elementary rotation of v.
Rotate(r, v) ==
    CASE r.kind = "X" ->
           Vec3(v.x,
                (v.y * Cos(r.angle) - v.z * Sin(r.angle)) \div R,
                (v.y * Sin(r.angle) + v.z * Cos(r.angle)) \div R)
      [] r.kind = "Y" ->
           Vec3((v.x * Cos(r.angle) + v.z * Sin(r.angle)) \div R,
                v.y,
                (v.z * Cos(r.angle) - v.x * Sin(r.angle)) \div R)
      [] r.kind = "Z" ->
           Vec3((v.x * Cos(r.angle) - v.y * Sin(r.angle)) \div R,
                (v.x * Sin(r.angle) + v.y * Cos(r.angle)) \div R,
                v.z)
      [] r.kind = "arc" ->
           \* the shortest arc from (1, 0, 0) to r.to; a half turn about y
           \* when r.to is (-1, 0, 0)
           LET c == r.to.x
               ny == -r.to.z
               nz == r.to.y
               dot == ny * v.y + nz * v.z
           IN  IF c + R <= 0
               THEN Vec3(-v.x, v.y, -v.z)
               ELSE Vec3((v.x * c + (ny * v.z - nz * v.y)) \div R,
                         (v.y * c + nz * v.x) \div R + (ny * dot) \div (R * (R + c)),
                         (v.z * c - ny * v.x) \div R + (nz * dot) \div (R * (R + c)))

\* Vector3.applyQuaternion
RECURSIVE ApplyQuaternion(_, _)
ApplyQuaternion(q, v) ==
    IF q = <<>> THEN v ELSE ApplyQuaternion(Tail(q), Rotate(Head(q), v))

\* --------------------------------------------------------------- the engine

\* baseball.js computeSeamPoints: the flat array x0, y0, z0, x1, ...
computeSeamPoints ==
    LET pt(i) ==
            LET t == (i * 2 * PI) \div SEAM_POINTS
                x0 == Cos(t) - (28 * Cos(3 * t)) \div 100 + (6 * Cos(5 * t)) \div 100
                y0 == Sin(t) + (28 * Sin(3 * t)) \div 100 + (6 * Sin(5 * t)) \div 100
                z0 == (18 * Cos(2 * t)) \div 10
                d == Sqrt(x0 * x0 + y0 * y0 + z0 * z0)
            IN  <<(x0 * R) \div d, (y0 * R) \div d, (z0 * R) \div d>>
    IN  Array([k \in 0..(3 * SEAM_POINTS - 1) |-> pt(k \div 3)[(k % 3) + 1]])
\* The weight of slice plane pzS, had the zone tests allowed the same margin
\* epsilon as the presence test.
SliceContrib_ZoneWithinEpsilon(pzS, zDirectSepStart, zInducedZone, zInducedStart, zInducedEnd) ==
    LET epsilon == (SEAM_TUBE_RADIUS * 3) \div 2
        jMin == Min(zDirectSepStart, zInducedEnd) - epsilon
        jMax == Max(zDirectSepStart, zInducedEnd) + epsilon
        dMin == Min(zDirectSepStart, zInducedStart) - epsilon
        dMax == Max(zDirectSepStart, zInducedStart) + epsilon
    IN  IF pzS > jMin /\ pzS < jMax
        THEN IF pzS >= dMin /\ pzS <= dMax
             THEN Abs(pzS - zInducedEnd)
             ELSE Abs(zInducedZone - zInducedEnd)
        ELSE 0

\* The weight of slice plane pzS (ssw.js 87-102).
SliceContrib(pzS, zDirectSepStart, zInducedZone, zInducedStart, zInducedEnd) ==
    LET jMin == Min(zDirectSepStart, zInducedEnd)
        jMax == Max(zDirectSepStart, zInducedEnd)
        dMin == Min(zDirectSepStart, zInducedStart)
        dMax == Max(zDirectSepStart, zInducedStart)
    IN  IF pzS > jMin /\ pzS < jMax
        THEN IF pzS >= dMin /\ pzS <= dMax
             THEN Abs(pzS - zInducedEnd)
             ELSE Abs(zInducedZone - zInducedEnd)
        ELSE 0

\* The weight of a seam point at height pz, had the direct-separation
\* sub-zone ended at the inducedZone plane.
PointContribution_SubZoneToInducedZone(pz, zDirectSepStart, zInducedZone, zInducedStart, zInducedEnd) ==
    LET judgeMin == Min(zDirectSepStart, zInducedEnd)
        judgeMax == Max(zDirectSepStart, zInducedEnd)
        dirMin == Min(zDirectSepStart, zInducedZone)
        dirMax == Max(zDirectSepStart, zInducedZone)
    IN  IF pz > judgeMin /\ pz < judgeMax
        THEN IF pz >= dirMin /\ pz <= dirMax
             THEN Abs(pz - zInducedEnd)
             ELSE Abs(zInducedZone - zInducedEnd)
        ELSE 0

\* The weight of a seam point at height pz (ssw.js 109-124).
PointContribution(pz, zDirectSepStart, zInducedZone, zInducedStart, zInducedEnd) ==
    LET judgeMin == Min(zDirectSepStart, zInducedEnd)
        judgeMax == Max(zDirectSepStart, zInducedEnd)
        dirMin == Min(zDirectSepStart, zInducedStart)
        dirMax == Max(zDirectSepStart, zInducedStart)
    IN  IF pz > judgeMin /\ pz < judgeMax
        THEN IF pz >= dirMin /\ pz <= dirMax
             THEN Abs(pz - zInducedEnd)
             ELSE Abs(zInducedZone - zInducedEnd)
        ELSE 0

\* atan2 brought into [0, 2 PI).
AngleOf(p) ==
    LET ang == Atan2(p.y, p.x)
    IN  IF ang < 0 THEN ang + 2 * PI ELSE ang
\* bin, had the index not been taken modulo SSW_BINS.
BinOf_NoWrap(ang) == (ang * SSW_BINS) \div (2 * PI)

\* Math.floor((ang / (Math.PI * 2)) * SSW_BINS) % SSW_BINS
BinOf(ang) == ((ang * SSW_BINS) \div (2 * PI)) % SSW_BINS

\* binAngle = (i / SSW_BINS) * TWO_PI
BinAngle(i) == (i * 2 * PI) \div SSW_BINS

\* Math.round((judgmentAngle / TWO_PI) * SSW_BINS)
LBin(judgmentAngle) == (2 * judgmentAngle * SSW_BINS + 2 * PI) \div (4 * PI)

\* The counterpart of bin i, had it been taken about the bin half way to L_bin.
MirrorBin_AboutHalf(L_bin, i) == JsRem(JsRem(L_bin - i, SSW_BINS) + SSW_BINS, SSW_BINS)

\* The counterpart of bin i, had the remainder been taken once.
MirrorBin_SingleRem(L_bin, i) == JsRem(2 * L_bin - i, SSW_BINS)

\* The symmetric counterpart of bin i across the judgment line.
MirrorBin(L_bin, i) == JsRem(JsRem(2 * L_bin - i, SSW_BINS) + SSW_BINS, SSW_BINS)

\* The seam points of one rotation step, rotated: for each point its
\* position, its angle and its bin.
RotatedPoints(seamPts, spinAxisQuat, initQuat, step) ==
    LET angle == (step * 2 * PI) \div SSW_ROTATION_STEPS
        spinQuat == SetFromAxisAngle("X", angle)
        mid == Multiply(spinQuat, initQuat)
        fullQuat == Multiply(spinAxisQuat, mid)
    IN  Array([i \in 0..(SEAM_POINTS - 1) |->
            LET p == ApplyQuaternion(fullQuat,
                         Vec3(seamPts[3 * i], seamPts[3 * i + 1], seamPts[3 * i + 2]))
                ang == AngleOf(p)
            IN  [p |-> p, ang |-> ang, bin |-> BinOf(ang)]])
\* present[] at the end of one step, had every point within epsilon of the
\* slice plane added 1 to its cell.
PresentOfStep_CountsPoints(pts, zPlanes, numSlices, epsilon) ==
    Array([idx \in 0..(numSlices * SSW_BINS - 1) |->
        Cardinality({i \in 0..(SEAM_POINTS - 1) :
                        /\ Abs(pts[i].p.z - zPlanes[idx \div SSW_BINS]) < epsilon
                        /\ pts[i].bin = idx % SSW_BINS})])

\* present[] at the end of one step: 1 where a point lies within epsilon of
\* the slice plane in that bin.
PresentOfStep(pts, zPlanes, numSlices, epsilon) ==
    Array([idx \in 0..(numSlices * SSW_BINS - 1) |->
        IF \E i \in 0..(SEAM_POINTS - 1) :
               /\ Abs(pts[i].p.z - zPlanes[idx \div SSW_BINS]) < epsilon
               /\ pts[i].bin = idx % SSW_BINS
        THEN 1 ELSE 0])
\* What one step adds to contribData[], had sliceContrib been added once for
\* every occupied cell, as the presence flag is.
ContribOfStep_OncePerCell(pts, zPlanes, numSlices, epsilon, weightOfSlice) ==
    Array([idx \in 0..(numSlices * SSW_BINS - 1) |->
        IF \E i \in 0..(SEAM_POINTS - 1) :
               /\ Abs(pts[i].p.z - zPlanes[idx \div SSW_BINS]) < epsilon
               /\ pts[i].bin = idx % SSW_BINS
        THEN weightOfSlice[idx \div SSW_BINS] ELSE 0])

\* What one step adds to contribData[]: sliceContrib once for every point
\* within epsilon of the slice plane in that bin.
ContribOfStep(pts, zPlanes, numSlices, epsilon, weightOfSlice) ==
    Array([idx \in 0..(numSlices * SSW_BINS - 1) |->
        SumTo([i \in 0..(SEAM_POINTS - 1) |->
                  IF /\ Abs(pts[i].p.z - zPlanes[idx \div SSW_BINS]) < epsilon
                     /\ pts[i].bin = idx % SSW_BINS
                     /\ weightOfSlice[idx \div SSW_BINS] > 0
                  THEN weightOfSlice[idx \div SSW_BINS] ELSE 0],
              SEAM_POINTS)])
\* What one step adds to effectSumA or effectSumB, had every point in the
\* zone been added to both sums.
EffectOfStep_IgnoresSide(pts, sideA, judgmentAngle, zDirectSepStart, zInducedZone, zInducedStart, zInducedEnd) ==
    SumTo([i \in 0..(SEAM_POINTS - 1) |->
              IF /\ pts[i].p.z > Min(zDirectSepStart, zInducedEnd)
                 /\ pts[i].p.z < Max(zDirectSepStart, zInducedEnd)
              THEN (PointContribution(pts[i].p.z, zDirectSepStart, zInducedZone,
                                      zInducedStart, zInducedEnd) * One)
                       \div SSW_ROTATION_STEPS
              ELSE 0],
          SEAM_POINTS)

\* What one step adds to effectSumA (sideA) or effectSumB:
\* contribution / SSW_ROTATION_STEPS of the points on that side.
EffectOfStep(pts, sideA, judgmentAngle, zDirectSepStart, zInducedZone, zInducedStart, zInducedEnd) ==
    SumTo([i \in 0..(SEAM_POINTS - 1) |->
              LET pz == pts[i].p.z
                  contribution == PointContribution(pz, zDirectSepStart, zInducedZone,
                                                    zInducedStart, zInducedEnd)
                  side == Sin(pts[i].ang - judgmentAngle)
                  weightedContrib == (contribution * One) \div SSW_ROTATION_STEPS
              IN  IF /\ pz > Min(zDirectSepStart, zInducedEnd)
                     /\ pz < Max(zDirectSepStart, zInducedEnd)
                     /\ (side >= 0) = sideA
                  THEN weightedContrib ELSE 0],
          SEAM_POINTS)

\* The five boundary heights (ssw.js 26-30).
Zones(alphaFrontDeg, inducedZoneDeg, inducedStartDeg, naturalZoneDeg, alphaBackDeg) ==
    [zDirectSepStart |-> Sin(Deg2Rad(alphaFrontDeg)),
     zInducedZone |-> Sin(Deg2Rad(inducedZoneDeg)),
     zInducedStart |-> Sin(Deg2Rad(inducedStartDeg)),
     zNaturalZone |-> Sin(Deg2Rad(naturalZoneDeg)),
     zInducedEnd |-> Sin(Deg2Rad(alphaBackDeg))]
\* zPlanes, had the planes been spread from the directSepStart plane to the
\* inducedEnd plane as they come.
SlicePlanes_TrustsOrder(z, numSlices) ==
    LET zMin == z.zDirectSepStart
        zMax == z.zInducedEnd
    IN  Array([s \in 0..(numSlices - 1) |->
                  IF numSlices = 1 THEN zMin + (zMax - zMin) \div 2
                  ELSE zMin + ((zMax - zMin) * s) \div (numSlices - 1)])

\* zPlanes: numSlices planes spread evenly from zMin to zMax (ssw.js 33-41).
SlicePlanes(z, numSlices) ==
    LET zMin == Min(z.zDirectSepStart, z.zInducedEnd)
        zMax == Max(z.zDirectSepStart, z.zInducedEnd)
    IN  Array([s \in 0..(numSlices - 1) |->
                  IF numSlices = 1 THEN zMin + (zMax - zMin) \div 2
                  ELSE zMin + ((zMax - zMin) * s) \div (numSlices - 1)])

\* spinAxisQuat: the rotation that takes the x axis to the spin axis.
SpinAxisQuat(spinDirection, gyroAngle) ==
    SetFromUnitVectors(Normalize(Vec3((Cos(gyroAngle) * Cos(spinDirection)) \div R,
                                      (Cos(gyroAngle) * Sin(spinDirection)) \div R,
                                      Sin(gyroAngle))))

\* The rotation loop (ssw.js 66-141): histData, contribData and the two effect
\* sums when the loop ends, from the rotated points pts of every step.
Accumulate(pts, z, zPlanes, numSlices, judgmentAngle) ==
    LET epsilon == (SEAM_TUBE_RADIUS * 3) \div 2
        weightOfSlice == Array([s \in 0..(numSlices - 1) |->
                             SliceContrib(zPlanes[s], z.zDirectSepStart, z.zInducedZone,
                                          z.zInducedStart, z.zInducedEnd)])
        present == Array([step \in 0..(SSW_ROTATION_STEPS - 1) |->
                       PresentOfStep(pts[step], zPlanes, numSlices, epsilon)])
        added == Array([step \in 0..(SSW_ROTATION_STEPS - 1) |->
                     ContribOfStep(pts[step], zPlanes, numSlices, epsilon, weightOfSlice)])
    IN  [histData |->
             Array([k \in 0..(numSlices * SSW_BINS - 1) |->
                 SumTo([step \in 0..(SSW_ROTATION_STEPS - 1) |-> present[step][k]],
                       SSW_ROTATION_STEPS)]),
         contribData |->
             Array([k \in 0..(numSlices * SSW_BINS - 1) |->
                 SumTo([step \in 0..(SSW_ROTATION_STEPS - 1) |-> added[step][k]],
                       SSW_ROTATION_STEPS)]),
         effectSumA |->
             SumTo([step \in 0..(SSW_ROTATION_STEPS - 1) |->
                       EffectOfStep(pts[step], TRUE, judgmentAngle,
                                    z.zDirectSepStart, z.zInducedZone,
                                    z.zInducedStart, z.zInducedEnd)],
                   SSW_ROTATION_STEPS),
         effectSumB |->
             SumTo([step \in 0..(SSW_ROTATION_STEPS - 1) |->
                       EffectOfStep(pts[step], FALSE, judgmentAngle,
                                    z.zDirectSepStart, z.zInducedZone,
                                    z.zInducedStart, z.zInducedEnd)],
                   SSW_ROTATION_STEPS)]

\* data[k] /= SSW_ROTATION_STEPS, then the slices of the array, one per plane
\* (ssw.js 145-162).  A normalised value is in units of 1 / One.
PerSlice(data, numSlices) ==
    Array([s \in 0..(numSlices - 1) |->
        Array([b \in 0..(SSW_BINS - 1) |->
            (data[s * SSW_BINS + b] * One) \div SSW_ROTATION_STEPS])])

\* The average across the slices (ssw.js 164-175).
Combine(perSlice, numSlices) ==
    Array([b \in 0..(SSW_BINS - 1) |->
        SumTo([s \in 0..(numSlices - 1) |-> perSlice[s][b]], numSlices) \div numSlices])

\* sumA (sideA) or sumB when the loop over the bins ends, had a bin on the
\* judgment line itself belonged to neither side.
SideSum_StrictSides(targetHist, judgmentAngle, sideA) ==
    SumTo([i \in 0..(SSW_BINS - 1) |->
              IF (sideA /\ Sin(BinAngle(i) - judgmentAngle) > 0)
                 \/ (~sideA /\ Sin(BinAngle(i) - judgmentAngle) < 0)
              THEN targetHist[i] ELSE 0], SSW_BINS)

\* sumA (sideA) or sumB when the loop over the bins ends (ssw.js 182-188).
SideSum(targetHist, judgmentAngle, sideA) ==
    SumTo([i \in 0..(SSW_BINS - 1) |->
              IF (Sin(BinAngle(i) - judgmentAngle) >= 0) = sideA
              THEN targetHist[i] ELSE 0], SSW_BINS)
\* asymmetryIndex, had the difference of the two side sums been kept signed.
AsymmetryIndex_Signed(targetHist, judgmentAngle) ==
    SideSum(targetHist, judgmentAngle, TRUE) - SideSum(targetHist, judgmentAngle, FALSE)

\* asymmetryIndex (ssw.js 181-189).
AsymmetryIndex(targetHist, judgmentAngle) ==
    Abs(SideSum(targetHist, judgmentAngle, TRUE) - SideSum(targetHist, judgmentAngle, FALSE))

\* (wx, wy) when the loop over the bins ends, had the counterpart of bin i
\* been taken as L_bin - i.
DirectionVector_MirrorAtHalf(effectHist, L_bin) ==
    [wx |-> SumTo([i \in 0..(SSW_BINS - 1) |->
                      ((effectHist[i] - effectHist[(((L_bin - i) % SSW_BINS) + SSW_BINS) % SSW_BINS])
                          * Cos(BinAngle(i))) \div R], SSW_BINS),
     wy |-> SumTo([i \in 0..(SSW_BINS - 1) |->
                      ((effectHist[i] - effectHist[(((L_bin - i) % SSW_BINS) + SSW_BINS) % SSW_BINS])
                          * Sin(BinAngle(i))) \div R], SSW_BINS)]

\* (wx, wy) when the loop over the bins ends (ssw.js 194-206).
DirectionVector(effectHist, L_bin) ==
    [wx |-> SumTo([i \in 0..(SSW_BINS - 1) |->
                      ((effectHist[i] - effectHist[MirrorBin(L_bin, i)])
                          * Cos(BinAngle(i))) \div R], SSW_BINS),
     wy |-> SumTo([i \in 0..(SSW_BINS - 1) |->
                      ((effectHist[i] - effectHist[MirrorBin(L_bin, i)])
                          * Sin(BinAngle(i))) \div R], SSW_BINS)]

\* atan2(-wy, -wx), brought into [0, 2 PI) (ssw.js 211-212).
ArrowOf(w) ==
    IF Atan2(-w.wy, -w.wx) < 0 THEN Atan2(-w.wy, -w.wx) + 2 * PI ELSE Atan2(-w.wy, -w.wx)

\* arrowAngle (ssw.js 193-212).
ArrowAngle(effectHist, L_bin) == ArrowOf(DirectionVector(effectHist, L_bin))

\* maxContribution (ssw.js 177).
MaxContribution(z) == Abs(z.zDirectSepStart - z.zNaturalZone)

\* The object computeSSW returns (ssw.js 143-222).
Results(acc, histograms, contribHistograms, combinedHist, combinedContrib, z, zPlanes, numSlices, judgmentAngle) ==
    [histograms |-> histograms, combined |-> combinedHist,
     contribHistograms |-> contribHistograms, combinedContrib |-> combinedContrib,
     asymmetryIndex |-> AsymmetryIndex(combinedHist, judgmentAngle),
     arrowAngle |-> ArrowAngle(combinedContrib, LBin(judgmentAngle)),
     arrowWidth |-> PI \div 4, numSlices |-> numSlices, zPlanes |-> zPlanes,
     sswEffectIndex |-> Abs(acc.effectSumA - acc.effectSumB),
     maxContribution |-> MaxContribution(z),
     effectSumA |-> (acc.effectSumA), effectSumB |-> (acc.effectSumB)]

\* The histograms of the accumulated data and their averages.
Summarise(acc, histograms, contribHistograms, z, zPlanes, numSlices, judgmentAngle) ==
    Results(acc, histograms, contribHistograms,
            Combine(histograms, numSlices), Combine(contribHistograms, numSlices),
            z, zPlanes, numSlices, judgmentAngle)

Normalise(acc, z, zPlanes, numSlices, judgmentAngle) ==
    Summarise(acc, PerSlice(acc.histData, numSlices), PerSlice(acc.contribData, numSlices),
              z, zPlanes, numSlices, judgmentAngle)

\* The body of computeSSW once the boundary heights z are known.
Sample(seamPts, spinAxisQuat, initQuat, z, zPlanes, numSlices, judgmentAngle) ==
    Normalise(Accumulate(Array([step \in 0..(SSW_ROTATION_STEPS - 1) |->
                                   RotatedPoints(seamPts, spinAxisQuat, initQuat, step)]),
                         z, zPlanes, numSlices, judgmentAngle),
              z, zPlanes, numSlices, judgmentAngle)

WithZones(seamPts, spinAxisQuat, initQuat, z, numSlices, judgmentAngle) ==
    Sample(seamPts, spinAxisQuat, initQuat, z, SlicePlanes(z, numSlices), numSlices,
           judgmentAngle)

\* export function computeSSW.  Every intermediate value of the function is
\* computed once and handed on as an argument.
computeSSW(seamPts, orientX, orientY, orientZ, spinDirection, gyroAngle, alphaFrontDeg, inducedZoneDeg, inducedStartDeg, naturalZoneDeg, alphaBackDeg) ==
    WithZones(seamPts,
              SpinAxisQuat(spinDirection, gyroAngle),
              SetFromEuler(orientX, orientY, orientZ),
              Zones(alphaFrontDeg, inducedZoneDeg, inducedStartDeg, naturalZoneDeg,
                    alphaBackDeg),
              SSW_SLICE_COUNT,
              spinDirection + PI \div 2)

\* The seam point set, created once at start-up (createBaseball).
seamPointsRaw == computeSeamPoints

\* The sliders' values when the page loads.
InitialUI ==
    [orientX |-> 0, orientY |-> 0, orientZ |-> 0, spinDirection |-> 0, gyroAngle |-> 0,
     alphaFront |-> -30, inducedZone |-> 0, inducedStart |-> 0, naturalZone |-> 30,
     alphaBack |-> 90]

\* A JS number: NaN, or the number n.
NaN == [isNaN |-> TRUE, n |-> 0]

Num(n) == [isNaN |-> FALSE, n |-> n]

\* The number fields when the page loads: each shows its slider's value. A
\* field's text is kept as the number parseFloat reads from it.
InitialInputs ==
    [alphaFront |-> Num(InitialUI.alphaFront), inducedZone |-> Num(InitialUI.inducedZone),
     inducedStart |-> Num(InitialUI.inducedStart), naturalZone |-> Num(InitialUI.naturalZone),
     alphaBack |-> Num(InitialUI.alphaBack)]

\* The slider settings looked at: seam orientation, gyro angle and back
\* boundary vary, the other sliders stay where the page puts them.
UIStates ==
    {[InitialUI EXCEPT !.orientX = ox, !.gyroAngle = g, !.alphaBack = ab] :
        ox \in {0, 60}, g \in {0, 90}, ab \in {30, 90}}

\* The getters of UIControls, collected by runSSW into params.
CollectParams(u) ==
    [rid |-> 0, mode |-> Undefined, seamPoints |-> seamPointsRaw,
     orientX |-> Deg2Rad(u.orientX), orientY |-> Deg2Rad(u.orientY),
     orientZ |-> Deg2Rad(u.orientZ),
     spinDirection |-> Deg2Rad(u.spinDirection) + PI,
     gyroAngle |-> Deg2Rad(u.gyroAngle),
     alphaFrontDeg |-> u.alphaFront, inducedZoneDeg |-> u.inducedZone,
     inducedStartDeg |-> u.inducedStart, naturalZoneDeg |-> u.naturalZone,
     alphaBackDeg |-> u.alphaBack]

\* Gyro angles of the trend sweep, in degrees: for (g = -90; g <= 90; g += step).
RECURSIVE SweepGyros(_, _)
SweepGyros(g, step) ==
    IF g <= 90 THEN <<g>> \o SweepGyros(g + step, step) ELSE <<>>

\* The argument lists of computeSSW that those settings and their sweeps give.
EngineArgs ==
    {<<p.orientX, p.orientY, p.orientZ, p.spinDirection, rad,
       p.alphaFrontDeg, p.inducedZoneDeg, p.inducedStartDeg,
       p.naturalZoneDeg, p.alphaBackDeg>> :
        p \in {CollectParams(u) : u \in UIStates},
        rad \in {Deg2Rad(u.gyroAngle) : u \in UIStates}
                \cup {Deg2Rad(SweepGyros(-90, 5)[i]) : i \in 1..Len(SweepGyros(-90, 5))}}

\* computeSSW on the start-up seam points, evaluated once per argument list.
EngineTable ==
    Array([a \in EngineArgs |->
              computeSSW(seamPointsRaw, a[1], a[2], a[3], a[4], a[5],
                         a[6], a[7], a[8], a[9], a[10])])

\* A call of computeSSW: the table's entry where there is one.
Engine(seamPts, orientX, orientY, orientZ, spinDirection, gyroAngle, alphaFrontDeg, inducedZoneDeg, inducedStartDeg, naturalZoneDeg, alphaBackDeg) ==
    IF /\ seamPts = seamPointsRaw
       /\ <<orientX, orientY, orientZ, spinDirection, gyroAngle,
            alphaFrontDeg, inducedZoneDeg, inducedStartDeg,
            naturalZoneDeg, alphaBackDeg>> \in EngineArgs
    THEN EngineTable[<<orientX, orientY, orientZ, spinDirection, gyroAngle,
                       alphaFrontDeg, inducedZoneDeg, inducedStartDeg,
                       naturalZoneDeg, alphaBackDeg>>]
    ELSE computeSSW(seamPts, orientX, orientY, orientZ, spinDirection, gyroAngle,
                    alphaFrontDeg, inducedZoneDeg, inducedStartDeg,
                    naturalZoneDeg, alphaBackDeg)

\* --------------------------------------------------------------- the worker

\* The fields of a result that a tuple of the sweep keeps.
TupleOf(g, res) ==
    [gyro |-> g, sswEffectIndex |-> res.sswEffectIndex,
     effectSumA |-> res.effectSumA, effectSumB |-> res.effectSumB]

\* One tuple of the sweep, had the worker kept the request's own gyro angle.
CurveTuple_IgnoresSweepAngle(d, g) ==
    TupleOf(g, Engine(d.seamPoints, d.orientX, d.orientY, d.orientZ,
                      d.spinDirection, d.gyroAngle,
                      d.alphaFrontDeg, d.inducedZoneDeg, d.inducedStartDeg,
                      d.naturalZoneDeg, d.alphaBackDeg))

\* One tuple of the sweep: rad = g * (Math.PI / 180).
CurveTuple(d, g) ==
    TupleOf(g, Engine(d.seamPoints, d.orientX, d.orientY, d.orientZ,
                      d.spinDirection, (g * PI) \div 180,
                      d.alphaFrontDeg, d.inducedZoneDeg, d.inducedStartDeg,
                      d.naturalZoneDeg, d.alphaBackDeg))

\* self.onmessage of the worker: the message it posts back for request d.
\* rid is the request's number, carried along to tell results apart.
WorkerOnMessage(d) ==
    IF d.mode = "curve"
    THEN LET gs == SweepGyros(-90, 5)
         IN  [type |-> Undefined, mode |-> "curve", rid |-> d.rid,
              data |-> [i \in 1..Len(gs) |-> CurveTuple(d, gs[i])]]
    ELSE [type |-> Undefined, mode |-> Undefined, rid |-> d.rid,
          result |-> Engine(d.seamPoints, d.orientX, d.orientY, d.orientZ,
                            d.spinDirection, d.gyroAngle,
                            d.alphaFrontDeg, d.inducedZoneDeg, d.inducedStartDeg,
                            d.naturalZoneDeg, d.alphaBackDeg)]

\* The worker's last top-level statement: self.postMessage({ type: 'ready' }).
ReadyMessage == [type |-> "ready", mode |-> Undefined]

\* ---------------------------------------------------------- the coordinator

VARIABLES
    ui,               \* the sliders' DOM values, in degrees
    started,          \* the module's top-level code has run (kick off)
    isComputing,      \* let isComputing
    pendingRequest,   \* let pendingRequest
    lastCurveParams,  \* let lastCurveParams
    needsMainUpdate,  \* let needsMainUpdate
    updateSSW,        \* let updateSSW
    updateCurve,      \* let updateCurve
    timers,           \* setTimeout(runSSW, 0) callbacks not yet run
    sswState,         \* the primary worker: "loading" or "running"
    sswInbox,         \* messages posted to the primary worker, not yet handled
    sswOutbox,        \* messages the primary worker posted, not yet handled
    curveState,       \* the curve worker likewise
    curveInbox,
    curveOutbox,
    dashboard,        \* the primary result the dashboard and labels show
    chartsData,       \* the sweep the charts show
    issued,           \* requestSSW calls made from runSSW so far
    sswPosted,        \* rids posted to the primary worker, in order
    curvePosted,      \* content keys of the sweeps posted, in order
    dispatched,       \* rids the result handler posted from the pending slot
    sswFailed,        \* primary requests whose computation threw in the worker
    nChanges,         \* UI change events so far
    args,             \* the arguments of a function called on its own
    ret,              \* what that call returned
    inputs            \* the number fields beside the five boundary sliders

vars == <<ui, started, isComputing, pendingRequest, lastCurveParams,
          needsMainUpdate, updateSSW, updateCurve, timers,
          sswState, sswInbox, sswOutbox, curveState, curveInbox, curveOutbox,
          dashboard, chartsData, issued, sswPosted, curvePosted, dispatched,
          sswFailed, nChanges, args, ret, inputs>>

\* The five boundary sliders, front to back.
planeIds == <<"alphaFront", "inducedZone", "inducedStart", "naturalZone", "alphaBack">>

\* The sliders the coordinator reads.
SliderKeys == {"orientX", "orientY", "orientZ", "spinDirection", "gyroAngle",
               "alphaFront", "inducedZone", "inducedStart", "naturalZone", "alphaBack"}

\* JSON.stringify of the nine non-gyro parameters: two keys are the same string
\* exactly when the nine numbers print the same.
CurveParamsKey(params) ==
    [ox |-> params.orientX, oy |-> params.orientY, oz |-> params.orientZ,
     sd |-> params.spinDirection,
     af |-> params.alphaFrontDeg, iz |-> params.inducedZoneDeg,
     is |-> params.inducedStartDeg, nz |-> params.naturalZoneDeg,
     ab |-> params.alphaBackDeg]

\* The state the handlers of main.js read and write, as one record.
M ==
    [isComputing |-> isComputing, pendingRequest |-> pendingRequest,
     lastCurveParams |-> lastCurveParams,
     updateSSW |-> updateSSW, updateCurve |-> updateCurve,
     sswInbox |-> sswInbox, curveInbox |-> curveInbox,
     dashboard |-> dashboard, chartsData |-> chartsData,
     issued |-> issued, sswPosted |-> sswPosted, curvePosted |-> curvePosted,
     dispatched |-> dispatched]

Set(m) ==
    /\ isComputing' = m.isComputing
    /\ pendingRequest' = m.pendingRequest
    /\ lastCurveParams' = m.lastCurveParams
    /\ updateSSW' = m.updateSSW
    /\ updateCurve' = m.updateCurve
    /\ sswInbox' = m.sswInbox
    /\ curveInbox' = m.curveInbox
    /\ dashboard' = m.dashboard
    /\ chartsData' = m.chartsData
    /\ issued' = m.issued
    /\ sswPosted' = m.sswPosted
    /\ curvePosted' = m.curvePosted
    /\ dispatched' = m.dispatched

\* function requestSSW(data)
requestSSW(m, data) ==
    IF m.isComputing
    THEN [m EXCEPT !.pendingRequest = data]
    ELSE [m EXCEPT !.isComputing = TRUE,
                   !.sswInbox = Append(@, data),
                   !.sswPosted = Append(@, data.rid)]

\* requestCurve, had it shared the primary request's in-flight flag.
requestCurve_SharesFlag(m, data) ==
    IF m.isComputing
    THEN m
    ELSE [m EXCEPT !.curveInbox = Append(@, [data EXCEPT !.mode = "curve"]),
                   !.curvePosted = Append(@, CurveParamsKey(data))]

\* function requestCurve(data)
requestCurve(m, data) ==
    [m EXCEPT !.curveInbox = Append(@, [data EXCEPT !.mode = "curve"]),
              !.curvePosted = Append(@, CurveParamsKey(data))]

\* runSSW, had it not compared the key with lastCurveParams.
runSSW_NoKeyCheck(m, u) ==
    LET params == CollectParams(u)
        m1 == IF m.updateSSW
              THEN [requestSSW([m EXCEPT !.issued = @ + 1],
                               [params EXCEPT !.rid = m.issued + 1])
                        EXCEPT !.updateSSW = FALSE]
              ELSE m
        curveParamsKey == CurveParamsKey(params)
    IN  IF m1.updateCurve
        THEN [requestCurve([m1 EXCEPT !.lastCurveParams = curveParamsKey], params)
                  EXCEPT !.updateCurve = FALSE]
        ELSE m1

\* function runSSW(), reading the sliders u.
runSSW(m, u) ==
    LET params == CollectParams(u)
        m1 == IF m.updateSSW
              THEN [requestSSW([m EXCEPT !.issued = @ + 1],
                               [params EXCEPT !.rid = m.issued + 1])
                        EXCEPT !.updateSSW = FALSE]
              ELSE m
        curveParamsKey == CurveParamsKey(params)
    IN  IF curveParamsKey # m1.lastCurveParams
        THEN IF m1.updateCurve
             THEN [requestCurve([m1 EXCEPT !.lastCurveParams = curveParamsKey], params)
                       EXCEPT !.updateCurve = FALSE]
             ELSE m1
        ELSE [m1 EXCEPT !.updateCurve = FALSE]

Init ==
    /\ ui = InitialUI
    /\ inputs = InitialInputs
    /\ started = FALSE
    /\ isComputing = FALSE
    /\ pendingRequest = Null
    /\ lastCurveParams = Null
    /\ needsMainUpdate = TRUE
    /\ updateSSW = TRUE
    /\ updateCurve = TRUE
    /\ timers = 0
    /\ sswState = "loading"
    /\ sswInbox = <<>>
    /\ sswOutbox = <<>>
    /\ curveState = "loading"
    /\ curveInbox = <<>>
    /\ curveOutbox = <<>>
    /\ dashboard = Null
    /\ chartsData = Null
    /\ issued = 0
    /\ sswPosted = <<>>
    /\ curvePosted = <<>>
    /\ dispatched = <<>>
    /\ sswFailed = {}
    /\ nChanges = 0
    /\ args = Null
    /\ ret = Null

\* Kick off: applyControls(); runSSW(); requestAnimationFrame(animate).
KickOff ==
    /\ ~started
    /\ started' = TRUE
    /\ Set(runSSW(M, ui))
    /\ UNCHANGED <<args, ret, inputs, ui, needsMainUpdate, timers, sswState, sswOutbox,
                   curveState, curveOutbox, sswFailed, nChanges>>

\* planeIds.indexOf(s.id), counted from 1; 0 when s is no boundary slider.
PlaneIdx(s) ==
    IF \E k \in 1..Len(planeIds) : planeIds[k] = s
    THEN CHOOSE k \in 1..Len(planeIds) : planeIds[k] = s
    ELSE 0

\* The clamp of a boundary slider against its two neighbours (update in ui.js).
ClampPlane(u, s, v) ==
    LET idx == PlaneIdx(s)
        v1 == IF idx > 1 /\ v < u[planeIds[idx - 1]] THEN u[planeIds[idx - 1]] ELSE v
        v2 == IF idx >= 1 /\ idx < Len(planeIds) /\ v1 > u[planeIds[idx + 1]]
              THEN u[planeIds[idx + 1]] ELSE v1
    IN  v2

\* The three update flags after the event, had the callback returned early
\* for no key.
onChange_MarksEveryKey(f, key, type) ==
    [updateSSW |-> TRUE,
     updateCurve |-> IF type = "committed" \/ type = Undefined
                     THEN TRUE ELSE f.updateCurve,
     needsMainUpdate |-> TRUE]

\* The callback given to UIControls: the three update flags after the event.
onChange(f, key, type) ==
    IF key \in {"playPause", "pitcherView", "catcherView", "spinRate",
                "visibleSeam", "visibleContrib"}
    THEN f
    ELSE [updateSSW |-> TRUE,
          updateCurve |-> IF type = "committed" \/ type = Undefined
                          THEN TRUE ELSE f.updateCurve,
          needsMainUpdate |-> TRUE]

Flags == [updateSSW |-> updateSSW, updateCurve |-> updateCurve,
          needsMainUpdate |-> needsMainUpdate]

SetFlags(f) ==
    /\ updateSSW' = f.updateSSW
    /\ updateCurve' = f.updateCurve
    /\ needsMainUpdate' = f.needsMainUpdate

\* The sliders the model moves and the values it moves them to.
ChangeKeys == {"gyroAngle", "alphaBack"}

SliderValues == {0, 90}

\* Keys of the events that carry no type and move no slider.
OtherKeys == {"playPause", "pitcherView", "catcherView", "spinRate", "visibleSeam",
              "visibleContrib", "dragAxis", "displayMode"}

\* An input or change event of a slider or its number field.
SliderChange(s, v, type) ==
    /\ started
    /\ nChanges < MaxChanges
    /\ nChanges' = nChanges + 1
    /\ ui' = [ui EXCEPT ![s] = ClampPlane(ui, s, v)]
    /\ inputs' = IF PlaneIdx(s) > 0
                  THEN [inputs EXCEPT ![s] = Num(ClampPlane(ui, s, v))]
                  ELSE inputs
    /\ SetFlags(onChange(Flags, s, type))
    /\ UNCHANGED <<args, ret, started, isComputing, pendingRequest, lastCurveParams, timers,
                   sswState, sswInbox, sswOutbox, curveState, curveInbox, curveOutbox,
                   dashboard, chartsData, issued, sswPosted, curvePosted, dispatched, sswFailed>>

\* A click or a change of a radio button, a checkbox or the spin-rate slider.
OtherChange(key) ==
    /\ started
    /\ nChanges < MaxChanges
    /\ nChanges' = nChanges + 1
    /\ SetFlags(onChange(Flags, key, Undefined))
    /\ UNCHANGED <<args, ret, inputs, ui, started, isComputing, pendingRequest, lastCurveParams, timers,
                   sswState, sswInbox, sswOutbox, curveState, curveInbox, curveOutbox,
                   dashboard, chartsData, issued, sswPosted, curvePosted, dispatched, sswFailed>>

\* function animate(): the part that schedules runSSW.
Animate ==
    /\ started
    /\ needsMainUpdate
    /\ needsMainUpdate' = FALSE
    /\ timers' = timers + 1
    /\ UNCHANGED <<args, ret, inputs, ui, started, isComputing, pendingRequest, lastCurveParams,
                   updateSSW, updateCurve,
                   sswState, sswInbox, sswOutbox, curveState, curveInbox, curveOutbox,
                   dashboard, chartsData, issued, sswPosted, curvePosted, dispatched, sswFailed,
                   nChanges>>

\* A setTimeout(runSSW, 0) callback runs.
TimerRunSSW ==
    /\ timers > 0
    /\ timers' = timers - 1
    /\ Set(runSSW(M, ui))
    /\ UNCHANGED <<args, ret, inputs, ui, started, needsMainUpdate, sswState, sswOutbox,
                   curveState, curveOutbox, sswFailed, nChanges>>

\* The primary worker's script has loaded and run: it posts 'ready'.
SSWWorkerStart ==
    /\ sswState = "loading"
    /\ sswState' = "running"
    /\ sswOutbox' = Append(sswOutbox, ReadyMessage)
    /\ UNCHANGED <<args, ret, inputs, ui, started, isComputing, pendingRequest, lastCurveParams,
                   needsMainUpdate, updateSSW, updateCurve, timers, sswInbox,
                   curveState, curveInbox, curveOutbox, dashboard, chartsData,
                   issued, sswPosted, curvePosted, dispatched, sswFailed, nChanges>>

\* The primary worker handles its next message.
SSWWorkerStep ==
    /\ sswState = "running"
    /\ sswInbox # <<>>
    /\ sswInbox' = Tail(sswInbox)
    /\ sswOutbox' = Append(sswOutbox, WorkerOnMessage(Head(sswInbox)))
    /\ UNCHANGED <<args, ret, inputs, ui, started, isComputing, pendingRequest, lastCurveParams,
                   needsMainUpdate, updateSSW, updateCurve, timers, sswState,
                   curveState, curveInbox, curveOutbox, dashboard, chartsData,
                   issued, sswPosted, curvePosted, dispatched, sswFailed, nChanges>>

\* The primary worker's handler throws: the message is consumed, nothing is posted.
SSWWorkerThrow ==
    /\ sswState = "running"
    /\ sswInbox # <<>>
    /\ sswInbox' = Tail(sswInbox)
    /\ sswFailed' = sswFailed \cup {Head(sswInbox).rid}
    /\ UNCHANGED <<args, ret, inputs, ui, started, isComputing, pendingRequest, lastCurveParams,
                   needsMainUpdate, updateSSW, updateCurve, timers, sswState, sswOutbox,
                   curveState, curveInbox, curveOutbox, dashboard, chartsData,
                   issued, sswPosted, curvePosted, dispatched, nChanges>>

\* sswWorker.onmessage, had it emptied the pending slot without posting.
sswOnMessage_DropsPending(m, u, msg) ==
    LET m0 == [m EXCEPT !.isComputing = FALSE]
        m1 == IF msg.mode = "curve"
              THEN [m0 EXCEPT !.chartsData = msg.data]
              ELSE [m0 EXCEPT !.dashboard = msg]
    IN  IF msg.type = "ready"
        THEN runSSW(m0, u)
        ELSE [m1 EXCEPT !.pendingRequest = Null]

\* sswWorker.onmessage
sswOnMessage(m, u, msg) ==
    LET m0 == [m EXCEPT !.isComputing = FALSE]
        m1 == IF msg.mode = "curve"
              THEN [m0 EXCEPT !.chartsData = msg.data]
              ELSE [m0 EXCEPT !.dashboard = msg]
    IN  IF msg.type = "ready"
        THEN runSSW(m0, u)
        ELSE IF m1.pendingRequest # Null
             THEN [requestSSW(m1, m1.pendingRequest)
                       EXCEPT !.pendingRequest = Null,
                              !.dispatched = Append(@, m1.pendingRequest.rid)]
             ELSE m1

HandleSSWMessage ==
    /\ started
    /\ sswOutbox # <<>>
    /\ sswOutbox' = Tail(sswOutbox)
    /\ Set(sswOnMessage(M, ui, Head(sswOutbox)))
    /\ UNCHANGED <<args, ret, inputs, ui, started, needsMainUpdate, timers, sswState,
                   curveState, curveOutbox, sswFailed, nChanges>>

CurveWorkerStart ==
    /\ curveState = "loading"
    /\ curveState' = "running"
    /\ curveOutbox' = Append(curveOutbox, ReadyMessage)
    /\ UNCHANGED <<args, ret, inputs, ui, started, isComputing, pendingRequest, lastCurveParams,
                   needsMainUpdate, updateSSW, updateCurve, timers,
                   sswState, sswInbox, sswOutbox, curveInbox, dashboard, chartsData,
                   issued, sswPosted, curvePosted, dispatched, sswFailed, nChanges>>

CurveWorkerStep ==
    /\ curveState = "running"
    /\ curveInbox # <<>>
    /\ curveInbox' = Tail(curveInbox)
    /\ curveOutbox' = Append(curveOutbox, WorkerOnMessage(Head(curveInbox)))
    /\ UNCHANGED <<args, ret, inputs, ui, started, isComputing, pendingRequest, lastCurveParams,
                   needsMainUpdate, updateSSW, updateCurve, timers,
                   sswState, sswInbox, sswOutbox, curveState, dashboard, chartsData,
                   issued, sswPosted, curvePosted, dispatched, sswFailed, nChanges>>

\* curveWorker.onmessage
curveOnMessage(m, u, msg) ==
    IF msg.mode = "curve"
    THEN [m EXCEPT !.chartsData = msg.data]
    ELSE IF msg.type = "ready"
         THEN runSSW([m EXCEPT !.updateCurve = TRUE], u)
         ELSE m

HandleCurveMessage ==
    /\ started
    /\ curveOutbox # <<>>
    /\ curveOutbox' = Tail(curveOutbox)
    /\ Set(curveOnMessage(M, ui, Head(curveOutbox)))
    /\ UNCHANGED <<args, ret, inputs, ui, started, needsMainUpdate, timers, sswState, sswOutbox,
                   curveState, sswFailed, nChanges>>

Next ==
    \/ KickOff
    \/ \E s \in ChangeKeys, v \in SliderValues, type \in {"live", "committed"} :
           SliderChange(s, v, type)
    \/ \E key \in OtherKeys : OtherChange(key)
    \/ Animate
    \/ TimerRunSSW
    \/ SSWWorkerStart
    \/ SSWWorkerStep
    \/ HandleSSWMessage
    \/ CurveWorkerStart
    \/ CurveWorkerStep
    \/ HandleCurveMessage

Spec == Init /\ [][Next]_vars

\* The same program when a computation may throw inside the primary worker.
NextFail == Next \/ SSWWorkerThrow

SpecFail == Init /\ [][NextFail]_vars

\* The worker script on its own: a worker that starts with one or two
\* requests waiting, single or sweep, for any of the slider settings.
WorkerRequests ==
    {[CollectParams(u) EXCEPT !.mode = mode] :
        u \in UIStates, mode \in {Undefined, "curve"}}

InitWorker ==
    /\ ui = InitialUI
    /\ inputs = InitialInputs
    /\ started = FALSE
    /\ isComputing = FALSE
    /\ pendingRequest = Null
    /\ lastCurveParams = Null
    /\ needsMainUpdate = TRUE
    /\ updateSSW = TRUE
    /\ updateCurve = TRUE
    /\ timers = 0
    /\ sswState = "loading"
    /\ sswInbox = <<>>
    /\ sswOutbox = <<>>
    /\ curveState = "loading"
    /\ curveInbox \in {<<a>> : a \in WorkerRequests}
                      \cup {<<a, b>> : a \in WorkerRequests, b \in WorkerRequests}
    /\ curveOutbox = <<>>
    /\ dashboard = Null
    /\ chartsData = Null
    /\ issued = 0
    /\ sswPosted = <<>>
    /\ curvePosted = <<>>
    /\ dispatched = <<>>
    /\ sswFailed = {}
    /\ nChanges = 0
    /\ args = Null
    /\ ret = Null

NextWorker == CurveWorkerStart \/ CurveWorkerStep

SpecWorker == InitWorker /\ [][NextWorker]_vars

\* ------------------------------------------------- functions on their own

\* The coordinator's variables, and the state they have before the page starts.
coordVars == <<ui, inputs, started, isComputing, pendingRequest, lastCurveParams,
               needsMainUpdate, updateSSW, updateCurve, timers,
               sswState, sswInbox, sswOutbox, curveState, curveInbox, curveOutbox,
               dashboard, chartsData, issued, sswPosted, curvePosted, dispatched,
               sswFailed, nChanges>>

CoordinatorIdle ==
    /\ ui = InitialUI
    /\ inputs = InitialInputs
    /\ started = FALSE
    /\ isComputing = FALSE
    /\ pendingRequest = Null
    /\ lastCurveParams = Null
    /\ needsMainUpdate = TRUE
    /\ updateSSW = TRUE
    /\ updateCurve = TRUE
    /\ timers = 0
    /\ sswState = "loading"
    /\ sswInbox = <<>>
    /\ sswOutbox = <<>>
    /\ curveState = "loading"
    /\ curveInbox = <<>>
    /\ curveOutbox = <<>>
    /\ dashboard = Null
    /\ chartsData = Null
    /\ issued = 0
    /\ sswPosted = <<>>
    /\ curvePosted = <<>>
    /\ dispatched = <<>>
    /\ sswFailed = {}
    /\ nChanges = 0

\* Boundary angles given to computeSSW, in degrees, front to back: the page's
\* own, other ordered ones, all five equal, and some that are out of order.
BoundaryTuples ==
    {<<-30, 0, 0, 30, 90>>, <<0, 0, 30, 30, 90>>, <<-30, -30, 30, 30, 30>>,
     <<0, 0, 0, 0, 0>>, <<30, 30, 30, 30, 30>>, <<-30, -30, -30, -30, -30>>,
     <<90, 30, 0, 0, -30>>, <<30, 90, -30, 0, 0>>, <<0, -30, 90, 30, -30>>}

\* A seam point set with points that coincide, as neighbours on the dense
\* seam of the page nearly do: the points lie on the x, y and z axes in turn.
AxisSeamPoints ==
    Array([k \in 0..(3 * SEAM_POINTS - 1) |-> IF (k \div 3) % 3 = k % 3 THEN R ELSE 0])

\* The argument lists computeSSW is called with on its own.
EngineInputs ==
    {[seamPts |-> pts,
      orientX |-> 0, orientY |-> Deg2Rad(oy), orientZ |-> 0,
      spinDirection |-> Deg2Rad(sd) + PI, gyroAngle |-> Deg2Rad(g),
      alphaFrontDeg |-> t[1], inducedZoneDeg |-> t[2], inducedStartDeg |-> t[3],
      naturalZoneDeg |-> t[4], alphaBackDeg |-> t[5]] :
        pts \in {seamPointsRaw, AxisSeamPoints},
        oy \in {0, 60}, sd \in {0, 45}, g \in {0, 60, 90}, t \in BoundaryTuples}

InitEngine ==
    /\ CoordinatorIdle
    /\ args \in EngineInputs
    /\ ret = Null

\* computeSSW runs to its return statement.
CallComputeSSW ==
    /\ ret = Null
    /\ ret' = computeSSW(args.seamPts, args.orientX, args.orientY, args.orientZ,
                         args.spinDirection, args.gyroAngle,
                         args.alphaFrontDeg, args.inducedZoneDeg, args.inducedStartDeg,
                         args.naturalZoneDeg, args.alphaBackDeg)
    /\ UNCHANGED args
    /\ UNCHANGED coordVars

NextEngine == CallComputeSSW

SpecEngine == InitEngine /\ [][NextEngine]_vars

\* Values of a histogram cell: empty, the smallest step and the full 1.0.
CellValues == {0, 1, One}

\* The histograms the index reducer is given on its own.
Histograms == [0..(SSW_BINS - 1) -> CellValues]

\* Judgment angles: spinDirection + PI / 2 for spin directions of 0, 30, 45
\* and 90 degrees.
JudgmentAngles == {Deg2Rad(sd) + PI + PI \div 2 : sd \in {0, 30, 45, 90}}

InitReducer ==
    /\ CoordinatorIdle
    /\ args \in {[hist |-> h, judgmentAngle |-> j] : h \in Histograms, j \in JudgmentAngles}
    /\ ret = Null

\* The last part of computeSSW (ssw.js 179-212) runs on one histogram, taken
\* as combinedHist and as combinedContrib.
CallReducer ==
    /\ ret = Null
    /\ ret' = [sumA |-> SideSum(args.hist, args.judgmentAngle, TRUE),
               sumB |-> SideSum(args.hist, args.judgmentAngle, FALSE),
               asymmetryIndex |-> AsymmetryIndex(args.hist, args.judgmentAngle),
               w |-> DirectionVector(args.hist, LBin(args.judgmentAngle)),
               arrowAngle |-> ArrowAngle(args.hist, LBin(args.judgmentAngle))]
    /\ UNCHANGED args
    /\ UNCHANGED coordVars

NextReducer == CallReducer

SpecReducer == InitReducer /\ [][NextReducer]_vars

\* Boundary angles the zone model is asked about, in degrees.
ZoneAngles == {-30, 0, 30, 90}

\* Heights the zone model is asked about: on, next to and between the planes
\* of those angles.
ZoneHeights ==
    {-R, -750, -501, -500, -499, -250, -1, 0, 1, 250, 499, 500, 501, 750, 999, R}

InitZone ==
    /\ CoordinatorIdle
    /\ args \in {[alphaFrontDeg |-> af, inducedZoneDeg |-> iz, inducedStartDeg |-> is,
                  naturalZoneDeg |-> nz, alphaBackDeg |-> ab, pz |-> pz] :
                    af \in ZoneAngles, iz \in ZoneAngles, is \in ZoneAngles,
                    nz \in ZoneAngles, ab \in ZoneAngles, pz \in ZoneHeights}
    /\ ret = Null

\* The two weights computeSSW gives the height pz, as a slice plane's and as
\* a seam point's, and the maxContribution it returns (ssw.js 26-30, 87-124, 177).
CallZoneModel ==
    /\ ret = Null
    /\ ret' = [sliceContrib |->
                   SliceContrib(args.pz, Sin(Deg2Rad(args.alphaFrontDeg)),
                                Sin(Deg2Rad(args.inducedZoneDeg)),
                                Sin(Deg2Rad(args.inducedStartDeg)),
                                Sin(Deg2Rad(args.alphaBackDeg))),
               contribution |->
                   PointContribution(args.pz, Sin(Deg2Rad(args.alphaFrontDeg)),
                                     Sin(Deg2Rad(args.inducedZoneDeg)),
                                     Sin(Deg2Rad(args.inducedStartDeg)),
                                     Sin(Deg2Rad(args.alphaBackDeg))),
               maxContribution |->
                   MaxContribution(Zones(args.alphaFrontDeg, args.inducedZoneDeg,
                                         args.inducedStartDeg, args.naturalZoneDeg,
                                         args.alphaBackDeg))]
    /\ UNCHANGED args
    /\ UNCHANGED coordVars

NextZone == CallZoneModel

SpecZone == InitZone /\ [][NextZone]_vars
\* --------------------------------------------------- the boundary controls

\* The min, max and step attributes of the five boundary sliders.
RangeMin == -90

RangeMax == 90

RangeStep == 1

\* The value on the slider's scale nearest to x.
SnapToStep(x) ==
    LET y == RangeMin + ((x - RangeMin + RangeStep \div 2) \div RangeStep) * RangeStep
    IN  IF y > RangeMax THEN y - RangeStep ELSE y

\* What a slider holds after rangeEl.value = v: a number is brought into
\* [min, max] and onto the scale, anything else gives the slider its default
\* value, the middle of its scale.
RangeValue(v) ==
    IF v.isNaN
    THEN SnapToStep(RangeMin + (RangeMax - RangeMin) \div 2)
    ELSE SnapToStep(Max(RangeMin, Min(RangeMax, v.n)))

\* update(sourceEl, type) of boundary slider s, up to its call of onChange:
\* the sliders u and the number fields inp after it; fromRange says that
\* sourceEl is the slider and not the number field.
update(u, inp, s, fromRange) ==
    LET raw  == IF fromRange THEN Num(u[s]) ELSE inp[s]
        val  == IF raw.isNaN THEN NaN ELSE Num(ClampPlane(u, s, raw.n))
        u1   == IF fromRange THEN u ELSE [u EXCEPT ![s] = RangeValue(val)]
        inp1 == IF fromRange THEN [inp EXCEPT ![s] = val] ELSE inp
        u2   == IF fromRange /\ Num(u1[s]) # val
                THEN [u1 EXCEPT ![s] = RangeValue(val)] ELSE u1
        inp2 == IF ~fromRange /\ (val.isNaN \/ inp1[s] # val)
                THEN [inp1 EXCEPT ![s] = val] ELSE inp1
    IN  [ui |-> u2, inputs |-> inp2]

SetControls(r) ==
    /\ ui' = r.ui
    /\ inputs' = r.inputs

\* The boundary sliders.
PlaneKeys == {planeIds[k] : k \in 1..Len(planeIds)}

\* Where the model drags a boundary slider to.
SliderPositions == {-90, -30, 0, 30, 90}

\* What the model types into a number field: numbers inside and outside the
\* slider's scale, and a text that is no number (the field cleared).
FieldEntries == {NaN} \cup {Num(n) : n \in {-120, -90, -30, 0, 30, 90, 120}}

\* An input or change event of a boundary slider the user has moved to v.
RangeEvent(s, v, type) ==
    /\ started
    /\ nChanges < MaxChanges
    /\ nChanges' = nChanges + 1
    /\ SetControls(update([ui EXCEPT ![s] = v], inputs, s, TRUE))
    /\ SetFlags(onChange(Flags, s, type))
    /\ UNCHANGED <<args, ret, started, isComputing, pendingRequest, lastCurveParams, timers,
                   sswState, sswInbox, sswOutbox, curveState, curveInbox, curveOutbox,
                   dashboard, chartsData, issued, sswPosted, curvePosted, dispatched, sswFailed>>

\* The slider after the keydown listener's rangeEl.value = val.
KeyStep(u, s, d) ==
    [u EXCEPT ![s] = RangeValue(Num(Min(RangeMax, Max(RangeMin, u[s] + d * RangeStep))))]

\* The two calls of update the keydown listener makes, live then committed.
UpdateTwice(r, s) == update(r.ui, r.inputs, s, TRUE)

\* A keydown of an arrow key on a boundary slider: d = 1 for right and up,
\* d = -1 for left and down.
KeyDown(s, d) ==
    /\ started
    /\ nChanges < MaxChanges
    /\ nChanges' = nChanges + 1
    /\ SetControls(UpdateTwice(update(KeyStep(ui, s, d), inputs, s, TRUE), s))
    /\ SetFlags(onChange(onChange(Flags, s, "live"), s, "committed"))
    /\ UNCHANGED <<args, ret, started, isComputing, pendingRequest, lastCurveParams, timers,
                   sswState, sswInbox, sswOutbox, curveState, curveInbox, curveOutbox,
                   dashboard, chartsData, issued, sswPosted, curvePosted, dispatched, sswFailed>>

\* An input or change event of a boundary slider's number field, the user
\* having typed text into it.
FieldEvent(s, text, type) ==
    /\ started
    /\ nChanges < MaxChanges
    /\ nChanges' = nChanges + 1
    /\ SetControls(update(ui, [inputs EXCEPT ![s] = text], s, FALSE))
    /\ SetFlags(onChange(Flags, s, type))
    /\ UNCHANGED <<args, ret, started, isComputing, pendingRequest, lastCurveParams, timers,
                   sswState, sswInbox, sswOutbox, curveState, curveInbox, curveOutbox,
                   dashboard, chartsData, issued, sswPosted, curvePosted, dispatched, sswFailed>>

NextUI ==
    \/ KickOff
    \/ \E s \in PlaneKeys, v \in SliderPositions, type \in {"live", "committed"} :
          RangeEvent(s, v, type)
    \/ \E s \in PlaneKeys, d \in {-1, 1} : KeyDown(s, d)
    \/ \E s \in PlaneKeys, text \in FieldEntries, type \in {"live", "committed"} :
          FieldEvent(s, text, type)

SpecUI == Init /\ [][NextUI]_vars
\* ------------------------------------------------------------ the bin index

\* What Math.atan2 can return, in half units: a negative angle is known to
\* half a unit, so that the rounding of its sum with 2 PI shows; the others
\* are whole units up to PI.
Atan2Results == {h \in (-2 * PI)..(2 * PI) : h >= 0 => h % 2 = 0}

\* The number of whole units nearest to h half units, a tie going to the
\* even one: the rounding of a floating-point sum.
RoundToUnit(h) ==
    IF h % 2 = 0 THEN h \div 2
    ELSE IF ((h - 1) \div 2) % 2 = 0 THEN (h - 1) \div 2 ELSE (h + 1) \div 2

\* if (ang < 0) ang += Math.PI * 2, of an angle of h half units.
AddTwoPi(h) == IF h < 0 THEN RoundToUnit(h + 4 * PI) ELSE h \div 2

InitBin ==
    /\ CoordinatorIdle
    /\ args \in {[atan2 |-> h] : h \in Atan2Results}
    /\ ret = Null

\* The angle, the bin and, for every slice, the index idx the sampler writes
\* at for a point whose atan2 is args.atan2 (ssw.js 81-84).
CallBin ==
    /\ ret = Null
    /\ ret' = [ang |-> AddTwoPi(args.atan2),
               bin |-> BinOf(AddTwoPi(args.atan2)),
               idx |-> Array([s \in 0..(SSW_SLICE_COUNT - 1) |->
                                 s * SSW_BINS + BinOf(AddTwoPi(args.atan2))])]
    /\ UNCHANGED args
    /\ UNCHANGED coordVars

NextBin == CallBin

SpecBin == InitBin /\ [][NextBin]_vars
\* ------------------------------------------------------------ the clock text

\* How many turns either way the angles handed to angleToClockString go.
MaxTurns == 2

\* The decimal digits of n >= 0, as a text of one-character strings.
RECURSIVE DigitsOf(_)
DigitsOf(n) ==
    IF n < 10 THEN <<SubSeq(<<"0", "1", "2", "3", "4", "5", "6", "7", "8", "9">>, n + 1, n + 1)[1]>>
    ELSE DigitsOf(n \div 10) \o DigitsOf(n % 10)

\* text.padStart(2, '0')
PadStart2(text) == IF Len(text) < 2 THEN <<"0">> \o text ELSE text

\* deg after ((deg % 360) + 360) % 360, in half degrees: 180 - angle * (180 / Math.PI)
\* is 360 - angle half degrees for an angle in units of PI / 360.
ClockDeg(angle) == JsRem(JsRem(360 - angle, 720) + 720, 720)

\* totalMin = (deg / 360) * 720: one minute for every half degree.
TotalMin(angle) == ClockDeg(angle)

\* h, had hour 0 been left as it is.
ClockHour_ZeroStays(totalMin) == totalMin \div 60

\* h = Math.floor(totalMin / 60) || 12
ClockHour(totalMin) == IF totalMin \div 60 = 0 THEN 12 ELSE totalMin \div 60

\* m = Math.floor(totalMin % 60).toString().padStart(2, '0')
ClockMinute(totalMin) == PadStart2(DigitsOf(JsRem(totalMin, 60)))

\* export function angleToClockString(angle): `${h}:${m}`.
angleToClockString(angle) ==
    DigitsOf(ClockHour(TotalMin(angle))) \o <<":">> \o ClockMinute(TotalMin(angle))

ClockAngles == (-MaxTurns * 2 * PI)..(MaxTurns * 2 * PI)

InitClock ==
    /\ CoordinatorIdle
    /\ args \in {[angle |-> a] : a \in ClockAngles}
    /\ ret = Null

CallClock ==
    /\ ret = Null
    /\ ret' = angleToClockString(args.angle)
    /\ UNCHANGED args
    /\ UNCHANGED coordVars

NextClock == CallClock

SpecClock == InitClock /\ [][NextClock]_vars
\* ---------------------------------------------------------- the mirror bins

\* The judgment angles looked at: every angle up to MaxTurns turns either
\* way, so that L_bin goes below 0 and beyond SSW_BINS.
MirrorAngles == (-MaxTurns * 2 * PI)..(MaxTurns * 2 * PI)

\* side >= 0 of the asymmetry loop: bin i is on side A of the judgment line.
OnSideA(i, judgmentAngle) == Sin(BinAngle(i) - judgmentAngle) >= 0

InitMirror ==
    /\ CoordinatorIdle
    /\ args \in {[judgmentAngle |-> j, i |-> i] : j \in MirrorAngles, i \in 0..(SSW_BINS - 1)}
    /\ ret = Null

\* L_bin, the counterpart j of bin i and the counterpart of j, with the
\* sides the asymmetry loop puts bin i and bin j on (ssw.js 62, 182-198).
CallMirror ==
    /\ ret = Null
    /\ ret' = [L_bin |-> LBin(args.judgmentAngle),
               j |-> MirrorBin(LBin(args.judgmentAngle), args.i),
               jj |-> MirrorBin(LBin(args.judgmentAngle),
                                MirrorBin(LBin(args.judgmentAngle), args.i)),
               sideI |-> OnSideA(args.i, args.judgmentAngle),
               sideJ |-> OnSideA(MirrorBin(LBin(args.judgmentAngle), args.i),
                                 args.judgmentAngle)]
    /\ UNCHANGED args
    /\ UNCHANGED coordVars

NextMirror == CallMirror

SpecMirror == InitMirror /\ [][NextMirror]_vars
\* ---------------------------------------------------------- the slice planes

\* What the rounding of a floating-point difference can add to it, in units
\* of the last place.
RoundingErrors == {-1, 0, 1}

\* Whether the floating-point difference b - a is exact whatever the low
\* bits of a and b: the two are equal or opposite, one of them is 0, or they
\* have one sign and neither is as much as twice the other.
ExactDifference(a, b) ==
    \/ a = b
    \/ a = -b
    \/ a = 0
    \/ b = 0
    \/ (a > 0 /\ b > 0 /\ Min(a, b) * 2 > Max(a, b))
    \/ (a < 0 /\ b < 0 /\ Max(a, b) * 2 < Min(a, b))

\* zPlanes as floating-point arithmetic gives them, the difference
\* zMax - zMin having come out e off (ssw.js 33-41).
RoundedSlicePlanes(z, numSlices, e) ==
    LET zMin == Min(z.zDirectSepStart, z.zInducedEnd)
        zMax == Max(z.zDirectSepStart, z.zInducedEnd)
    IN  Array([s \in 0..(numSlices - 1) |->
                  IF numSlices = 1 THEN zMin + (zMax - zMin + e) \div 2
                  ELSE zMin + ((zMax - zMin + e) * s) \div (numSlices - 1)])

\* The planes and the weight of each plane (ssw.js 87-102).
PlanesAndWeights(z, zPlanes, numSlices) ==
    [zPlanes |-> zPlanes,
     sliceContrib |-> Array([s \in 0..(numSlices - 1) |->
                                SliceContrib(zPlanes[s], z.zDirectSepStart, z.zInducedZone,
                                             z.zInducedStart, z.zInducedEnd)])]

\* The boundary angles the planes are laid for, in degrees.
PlaneAngles == ZoneAngles \cup {-90, -60, -45}

InitPlanes ==
    /\ CoordinatorIdle
    /\ args \in {[alphaFrontDeg |-> af, inducedZoneDeg |-> iz, inducedStartDeg |-> is,
                  naturalZoneDeg |-> nz, alphaBackDeg |-> ab] :
                    af \in PlaneAngles, iz \in PlaneAngles, is \in PlaneAngles,
                    nz \in PlaneAngles, ab \in PlaneAngles}
    /\ ret = Null

\* The rounding error e can come about for the boundary heights z.
MayRound(z, e) ==
    e # 0 => ~ExactDifference(Min(z.zDirectSepStart, z.zInducedEnd),
                              Max(z.zDirectSepStart, z.zInducedEnd))

\* computeSSW lays the slice planes and weighs each of them (ssw.js 26-41,
\* 87-102); the difference zMax - zMin is rounded unless it is exact.
CallSlicePlanes ==
    /\ ret = Null
    /\ \E e \in RoundingErrors :
          /\ MayRound(Zones(args.alphaFrontDeg, args.inducedZoneDeg, args.inducedStartDeg,
                            args.naturalZoneDeg, args.alphaBackDeg), e)
          /\ ret' = PlanesAndWeights(
                        Zones(args.alphaFrontDeg, args.inducedZoneDeg, args.inducedStartDeg,
                              args.naturalZoneDeg, args.alphaBackDeg),
                        RoundedSlicePlanes(
                            Zones(args.alphaFrontDeg, args.inducedZoneDeg, args.inducedStartDeg,
                                  args.naturalZoneDeg, args.alphaBackDeg),
                            SSW_SLICE_COUNT, e),
                        SSW_SLICE_COUNT)
    /\ UNCHANGED args
    /\ UNCHANGED coordVars

NextPlanes == CallSlicePlanes

SpecPlanes == InitPlanes /\ [][NextPlanes]_vars

\* ------------------------------------------------------------ the claims

\* Result messages of the primary worker that main has not handled yet.
ResultsInFlight(outbox) ==
    Cardinality({i \in DOMAIN outbox : outbox[i].type # "ready"})

\* Primary requests posted whose result has not been received.
OutstandingPrimary == Len(sswInbox) + ResultsInFlight(sswOutbox)

\* Sweeps posted whose curve has not been received.
OutstandingSweeps == Len(curveInbox) + ResultsInFlight(curveOutbox)

\* Nothing is scheduled, posted or waiting to be handled.
Quiescent ==
    /\ started
    /\ timers = 0
    /\ ~needsMainUpdate
    /\ ~updateSSW
    /\ sswState = "running"
    /\ sswInbox = <<>>
    /\ sswOutbox = <<>>

\* This step is sswWorker.onmessage handling a result (not 'ready').
HandlesPrimaryResult ==
    /\ sswOutbox # <<>>
    /\ Head(sswOutbox).type # "ready"
    /\ sswOutbox' = Tail(sswOutbox)

\* This step is curveWorker.onmessage handling a curve.
HandlesCurveResult ==
    /\ curveOutbox # <<>>
    /\ Head(curveOutbox).type # "ready"
    /\ curveOutbox' = Tail(curveOutbox)

\* C1: single-flight: at most one primary request is posted to the primary
\* worker without its result having been received.
C1_SingleFlight == OutstandingPrimary <= 1

\* C2: coalescing: a request posted to the primary worker is the most recent
\* one issued (superseded requests are never posted), and the pending slot
\* holds the most recent request whenever it is occupied.
C2_Coalescing ==
    [][/\ Len(sswPosted') > Len(sswPosted)
            => sswPosted'[Len(sswPosted')] = issued'
       /\ pendingRequest' # Null => pendingRequest'.rid = issued']_vars

\* C3: once nothing is in flight the coordinator is idle with an empty pending
\* slot and the dashboard shows the result of the most recently issued request.
C3_LatestResultWins ==
    Quiescent =>
        /\ ~isComputing
        /\ pendingRequest = Null
        /\ dashboard # Null
        /\ dashboard.rid = issued

\* C4: failure isolation: when no primary request is outstanding and main has
\* handled every message of the primary worker (also after a computation
\* threw in the worker) the in-flight flag is clear and nothing is parked in
\* the pending slot.
C4_FailureIsolation ==
    (OutstandingPrimary = 0 /\ sswOutbox = <<>>)
        => ~isComputing /\ pendingRequest = Null

\* C5: a primary result handled while the pending slot is occupied posts the
\* pending request in that handler, sets the in-flight flag again and leaves
\* the pending slot empty.
C5_DispatchOnResult ==
    [][HandlesPrimaryResult /\ pendingRequest # Null
          => /\ sswInbox' = Append(sswInbox, pendingRequest)
             /\ isComputing'
             /\ pendingRequest' = Null]_vars

\* A result handler has dispatched a request from the pending slot.
C5_Witness ==
    /\ dispatched # <<>>
    /\ isComputing
    /\ pendingRequest = Null
    /\ dashboard # Null

\* C6: trend-sweep deduplication: lastCurveParams is the key of the last sweep
\* posted, and no two consecutive sweeps posted have the same key.
C6_SweepDedup ==
    /\ lastCurveParams = IF curvePosted = <<>> THEN Null
                         ELSE curvePosted[Len(curvePosted)]
    /\ \A i \in 1..(Len(curvePosted) - 1) : curvePosted[i] # curvePosted[i + 1]

\* The curve worker's 'ready' handler has asked for a sweep with the kick-off
\* parameters, after the kick-off's sweep: one sweep was posted, not two.
C6_Witness ==
    /\ started
    /\ nChanges = 0
    /\ curveState = "running"
    /\ curveOutbox = <<>>
    /\ chartsData = Null
    /\ curveInbox # <<>>
    /\ Len(curvePosted) = 1

\* C7: the trend sweep is single-flight: at most one sweep is posted to the
\* curve worker without its curve having been received.
C7_SweepSingleFlight == OutstandingSweeps <= 1

\* C8: primary and sweep dispatch do not block each other.  A primary request
\* issued while the in-flight flag is clear is posted in that step whatever
\* sweeps are outstanding; a sweep whose key is not lastCurveParams, asked
\* for in a timer's runSSW, is posted in that step whatever the in-flight flag
\* and the pending slot hold; handling a primary result changes no sweep
\* state and handling a curve changes no primary state.
C8_Independent ==
    [][/\ (issued' > issued /\ ~isComputing)
            => sswInbox' = Append(sswInbox, [CollectParams(ui) EXCEPT !.rid = issued'])
       /\ (timers' < timers /\ updateCurve
              /\ CurveParamsKey(CollectParams(ui)) # lastCurveParams)
            => curveInbox' = Append(curveInbox, [CollectParams(ui) EXCEPT !.mode = "curve"])
       /\ HandlesPrimaryResult
            => UNCHANGED <<curveInbox, lastCurveParams, updateCurve, chartsData,
                           curvePosted>>
       /\ HandlesCurveResult
            => UNCHANGED <<sswInbox, isComputing, pendingRequest, dashboard,
                           sswPosted>>]_vars

\* A second primary request was posted while the kick-off's sweep was still
\* outstanding, and a second sweep while a primary request was in flight.
C8_Witness ==
    /\ curveState = "loading"
    /\ Len(curveInbox) = 2
    /\ Len(sswPosted) >= 2
    /\ isComputing

\* C9: a trend-sweep request is answered by exactly one message, which holds
\* 37 tuples for the gyro angles -90, -85, ..., 90 degrees in ascending order,
\* each the effect index and the two effect sums of computeSSW called with the
\* request's nine non-gyro parameters unchanged and that gyro angle in radians.
C9_SweepResponse ==
    [][(/\ curveState = "running"
        /\ curveInbox # <<>>
        /\ curveInbox' = Tail(curveInbox)
        /\ Head(curveInbox).mode = "curve")
       => LET d == Head(curveInbox)
              msg == curveOutbox'[Len(curveOutbox')]
          IN  /\ Len(curveOutbox') = Len(curveOutbox) + 1
              /\ SubSeq(curveOutbox', 1, Len(curveOutbox)) = curveOutbox
              /\ msg.mode = "curve"
              /\ DOMAIN msg.data = 1..37
              /\ \A i \in 1..37 :
                    LET g == 5 * i - 95
                        r == Engine(d.seamPoints, d.orientX, d.orientY, d.orientZ,
                                    d.spinDirection, Deg2Rad(g),
                                    d.alphaFrontDeg, d.inducedZoneDeg,
                                    d.inducedStartDeg, d.naturalZoneDeg, d.alphaBackDeg)
                    IN  msg.data[i] = [gyro |-> g,
                                       sswEffectIndex |-> r.sswEffectIndex,
                                       effectSumA |-> r.effectSumA,
                                       effectSumB |-> r.effectSumB]]_vars

\* A sweep has been answered with 37 tuples, and its effect index varies
\* along the sweep.
C9_Witness ==
    /\ curveInbox = <<>>
    /\ \E k \in DOMAIN curveOutbox :
          /\ curveOutbox[k].mode = "curve"
          /\ Len(curveOutbox[k].data) = 37
          /\ \E i, j \in 1..37 :
                curveOutbox[k].data[i].sswEffectIndex
                    # curveOutbox[k].data[j].sswEffectIndex

\* The five boundary angles of a call are one and the same angle.
AllEqual(a) ==
    /\ a.alphaFrontDeg = a.inducedZoneDeg
    /\ a.inducedZoneDeg = a.inducedStartDeg
    /\ a.inducedStartDeg = a.naturalZoneDeg
    /\ a.naturalZoneDeg = a.alphaBackDeg

\* The boundary heights of a call.
ZonesOf(a) ==
    Zones(a.alphaFrontDeg, a.inducedZoneDeg, a.inducedStartDeg, a.naturalZoneDeg,
          a.alphaBackDeg)

\* Every cell of the histogram h is 0.
AllZero(h) == \A b \in 0..(SSW_BINS - 1) : h[b] = 0

\* The heights a weight is asked for: every height of the ball.
ProbeHeights == (-R)..R

\* C11: when the five boundary angles are equal, the contribution weight is 0
\* at every height, for slice planes and for seam points alike, every cell of
\* every contribution histogram is 0, and effectSumA, effectSumB and
\* sswEffectIndex are 0.
C11_EqualBoundaries ==
    (ret # Null /\ AllEqual(args)) =>
        /\ \A pz \in ProbeHeights :
              /\ SliceContrib(pz, ZonesOf(args).zDirectSepStart, ZonesOf(args).zInducedZone,
                              ZonesOf(args).zInducedStart, ZonesOf(args).zInducedEnd) = 0
              /\ PointContribution(pz, ZonesOf(args).zDirectSepStart,
                                   ZonesOf(args).zInducedZone, ZonesOf(args).zInducedStart,
                                   ZonesOf(args).zInducedEnd) = 0
        /\ \A s \in 0..(SSW_SLICE_COUNT - 1) : AllZero(ret.contribHistograms[s])
        /\ AllZero(ret.combinedContrib)
        /\ ret.effectSumA = 0
        /\ ret.effectSumB = 0
        /\ ret.sswEffectIndex = 0

\* computeSSW has returned from a call with five equal boundary angles in
\* which seam points passed the one plane that is left.
C11_Witness ==
    /\ ret # Null
    /\ AllEqual(args)
    /\ ~AllZero(ret.combined)

\* C12: when the five boundary angles are equal, asymmetryIndex is 0.
C12_AsymmetryZero ==
    (ret # Null /\ AllEqual(args)) => ret.asymmetryIndex = 0

\* mirror(i) = ((2L - i) mod B + B) mod B
MirrorOf(L, i) == (((2 * L - i) % SSW_BINS) + SSW_BINS) % SSW_BINS

\* The histogram h is the same on both sides of the judgment line of bin L.
Symmetric(h, L) == \A i \in 0..(SSW_BINS - 1) : h[i] = h[MirrorOf(L, i)]

\* C13: when the combined contribution histogram equals its mirror image
\* across the judgment line in every bin, the direction vector accumulated
\* over the bins is (wx, wy) = (0, 0).
C13_SymmetricDirection ==
    (ret # Null /\ Symmetric(args.hist, LBin(args.judgmentAngle)))
        => (ret.w.wx = 0 /\ ret.w.wy = 0)

\* The reducer has run on a histogram that is symmetric and not flat.
C13_Witness ==
    /\ ret # Null
    /\ Symmetric(args.hist, LBin(args.judgmentAngle))
    /\ \E i, j \in 0..(SSW_BINS - 1) : args.hist[i] # args.hist[j]
    /\ ret.w.wx = 0
    /\ ret.w.wy = 0

\* C16: every bin is on exactly one side of the judgment line (side A where
\* sin(binAngle - judgmentAngle) >= 0, side B otherwise), so sumA + sumB is
\* the sum of all bins of the combined presence histogram, whatever the
\* judgment angle.
C16_SidesPartition ==
    ret # Null =>
        /\ \A i \in 0..(SSW_BINS - 1) :
              (Sin(BinAngle(i) - args.judgmentAngle) >= 0)
                  # (Sin(BinAngle(i) - args.judgmentAngle) < 0)
        /\ ret.sumA + ret.sumB = SumTo(args.hist, SSW_BINS)

\* The reducer has run on a histogram with an occupied bin on the judgment
\* line itself and occupied bins on both sides of it.
C16_Witness ==
    /\ ret # Null
    /\ \E i \in 0..(SSW_BINS - 1) :
          Sin(BinAngle(i) - args.judgmentAngle) = 0 /\ args.hist[i] > 0
    /\ ret.sumA > 0
    /\ ret.sumB > 0
    /\ ret.sumA + ret.sumB = SumTo(args.hist, SSW_BINS)

\* The bin of the judgment line of a call.
LBinOf(a) == LBin(a.spinDirection + PI \div 2)

\* C14: when the contribution histograms computeSSW returns, combined and per
\* slice, equal their mirror images across the judgment line in every bin,
\* the sswEffectIndex of the same call is 0.
C14_SymmetricIndex ==
    (/\ ret # Null
     /\ Symmetric(ret.combinedContrib, LBinOf(args))
     /\ \A s \in 0..(SSW_SLICE_COUNT - 1) :
           Symmetric(ret.contribHistograms[s], LBinOf(args)))
        => ret.sswEffectIndex = 0

\* The rotated seam points of every step of a call.
PointsOf(a) ==
    Array([step \in 0..(SSW_ROTATION_STEPS - 1) |->
              RotatedPoints(a.seamPts, SpinAxisQuat(a.spinDirection, a.gyroAngle),
                            SetFromEuler(a.orientX, a.orientY, a.orientZ), step)])

\* The slice planes of a call.
PlanesOf(a) == SlicePlanes(ZonesOf(a), SSW_SLICE_COUNT)

\* The seam points of one step that lie within epsilon of slice plane s in bin b.
PointsIn(pts, zPlanes, s, b) ==
    {i \in 0..(SEAM_POINTS - 1) :
        /\ Abs(pts[i].p.z - zPlanes[s]) < (SEAM_TUBE_RADIUS * 3) \div 2
        /\ pts[i].bin = b}

\* The steps of a call in which slice s, bin b holds at least one seam point.
OccupiedSteps(pts, zPlanes, s, b) ==
    {step \in 0..(SSW_ROTATION_STEPS - 1) : PointsIn(pts[step], zPlanes, s, b) # {}}

\* C15: in one rotation step a (slice, bin) presence cell grows by 1 when at
\* least one seam point lies within epsilon of the slice plane in that bin and
\* by 0 otherwise, however many points fall there; after the division by the
\* number of steps every per-slice value is the fraction of occupied steps,
\* and every per-slice and combined value lies between 0 and 1.0 (One).
C15_PresenceOccupancy ==
    ret # Null =>
        LET pts == PointsOf(args)
            zPlanes == PlanesOf(args)
        IN  /\ \A step \in 0..(SSW_ROTATION_STEPS - 1) :
                  LET present == PresentOfStep(pts[step], zPlanes, SSW_SLICE_COUNT,
                                               (SEAM_TUBE_RADIUS * 3) \div 2)
                  IN  \A s \in 0..(SSW_SLICE_COUNT - 1), b \in 0..(SSW_BINS - 1) :
                          present[s * SSW_BINS + b]
                              = IF PointsIn(pts[step], zPlanes, s, b) # {} THEN 1 ELSE 0
            /\ \A s \in 0..(SSW_SLICE_COUNT - 1), b \in 0..(SSW_BINS - 1) :
                  /\ ret.histograms[s][b]
                        = (Cardinality(OccupiedSteps(pts, zPlanes, s, b)) * One)
                              \div SSW_ROTATION_STEPS
                  /\ ret.histograms[s][b] \in 0..One
                  /\ ret.combined[b] \in 0..One

\* computeSSW has returned from a call in which two or more seam points fell
\* into one cell in one step, and in which some cell was occupied in every step.
C15_Witness ==
    /\ ret # Null
    /\ LET pts == PointsOf(args)
           zPlanes == PlanesOf(args)
       IN  \E s \in 0..(SSW_SLICE_COUNT - 1), b \in 0..(SSW_BINS - 1) :
               \E step \in 0..(SSW_ROTATION_STEPS - 1) :
                   Cardinality(PointsIn(pts[step], zPlanes, s, b)) >= 2
    /\ \E s \in 0..(SSW_SLICE_COUNT - 1), b \in 0..(SSW_BINS - 1) :
          ret.histograms[s][b] = One

\* The judgment zone and the direct-separation sub-zone of a call, as the
\* heights R * sin(angle) of their planes.
ZoneOf(a) ==
    [jMin |-> Min(ZonesOf(a).zDirectSepStart, ZonesOf(a).zInducedEnd),
     jMax |-> Max(ZonesOf(a).zDirectSepStart, ZonesOf(a).zInducedEnd),
     dMin |-> Min(ZonesOf(a).zDirectSepStart, ZonesOf(a).zInducedStart),
     dMax |-> Max(ZonesOf(a).zDirectSepStart, ZonesOf(a).zInducedStart)]

\* C17: the weight of a height is 0 when the height is not between the
\* directSepStart and inducedEnd planes; between them it is |z - zInducedEnd|
\* when z lies in [min, max] of (zDirectSepStart, zInducedStart) and the
\* constant |zInducedZone - zInducedEnd| otherwise; and the rule for slice
\* planes and the rule for seam points give one height the same weight.
C17_ZoneModel ==
    ret # Null =>
        /\ (args.pz <= ZoneOf(args).jMin \/ args.pz >= ZoneOf(args).jMax)
              => ret.sliceContrib = 0
        /\ (/\ args.pz > ZoneOf(args).jMin
            /\ args.pz < ZoneOf(args).jMax
            /\ args.pz >= ZoneOf(args).dMin
            /\ args.pz <= ZoneOf(args).dMax)
              => ret.sliceContrib = Abs(args.pz - ZonesOf(args).zInducedEnd)
        /\ (/\ args.pz > ZoneOf(args).jMin
            /\ args.pz < ZoneOf(args).jMax
            /\ (args.pz < ZoneOf(args).dMin \/ args.pz > ZoneOf(args).dMax))
              => ret.sliceContrib
                    = Abs(ZonesOf(args).zInducedZone - ZonesOf(args).zInducedEnd)
        /\ ret.contribution = ret.sliceContrib

\* The zone model has been asked about a height in the direct-separation
\* sub-zone and got a weight that depends on the height.
C17_Witness ==
    /\ ret # Null
    /\ args.pz > ZoneOf(args).jMin
    /\ args.pz < ZoneOf(args).jMax
    /\ args.pz >= ZoneOf(args).dMin
    /\ args.pz <= ZoneOf(args).dMax
    /\ ret.sliceContrib > 0
    /\ ret.sliceContrib # Abs(ZonesOf(args).zInducedZone - ZonesOf(args).zInducedEnd)
    /\ ret.contribution = ret.sliceContrib

\* The five boundary angles of a call are non-decreasing, front to back.
WellOrdered(a) ==
    /\ a.alphaFrontDeg <= a.inducedZoneDeg
    /\ a.inducedZoneDeg <= a.inducedStartDeg
    /\ a.inducedStartDeg <= a.naturalZoneDeg
    /\ a.naturalZoneDeg <= a.alphaBackDeg

\* C18: for well-ordered boundary angles no weight the zone model gives a
\* height exceeds maxContribution = |zDirectSepStart - zNaturalZone|.
C18_MaxContributionBound ==
    (ret # Null /\ WellOrdered(args)) =>
        /\ ret.sliceContrib <= ret.maxContribution
        /\ ret.contribution <= ret.maxContribution

\* The fields of the object computeSSW returns.
ResultFields ==
    {"histograms", "combined", "contribHistograms", "combinedContrib",
     "asymmetryIndex", "arrowAngle", "arrowWidth", "numSlices", "zPlanes",
     "sswEffectIndex", "maxContribution", "effectSumA", "effectSumB"}

\* The weight of one height against the zone [jMin, jMax] and its direct
\* sub-zone [dMin, dMax]: never negative, 0 outside the zone, the distance
\* to the inducedEnd plane inside the direct sub-zone.
WeightInZone(pz, z, zone) ==
    /\ PointContribution(pz, z.zDirectSepStart, z.zInducedZone, z.zInducedStart, z.zInducedEnd) >= 0
    /\ SliceContrib(pz, z.zDirectSepStart, z.zInducedZone, z.zInducedStart, z.zInducedEnd) >= 0
    /\ (pz < zone.jMin \/ pz > zone.jMax)
          => PointContribution(pz, z.zDirectSepStart, z.zInducedZone, z.zInducedStart, z.zInducedEnd) = 0
    /\ (pz > zone.jMin /\ pz < zone.jMax /\ pz >= zone.dMin /\ pz <= zone.dMax)
          => PointContribution(pz, z.zDirectSepStart, z.zInducedZone, z.zInducedStart, z.zInducedEnd) = Abs(pz - z.zInducedEnd)

C19_BoundaryOrder ==
    /\ CollectParams(ui).alphaFrontDeg <= CollectParams(ui).inducedZoneDeg
    /\ CollectParams(ui).inducedZoneDeg <= CollectParams(ui).inducedStartDeg
    /\ CollectParams(ui).inducedStartDeg <= CollectParams(ui).naturalZoneDeg
    /\ CollectParams(ui).naturalZoneDeg <= CollectParams(ui).alphaBackDeg

\* C21: for every parameter set the result's asymmetryIndex and
\* sswEffectIndex are not negative, and neither are the two hemisphere sums
\* effectSumA and effectSumB.
C21_IndicesNonNegative ==
    ret # Null =>
        /\ ret.asymmetryIndex >= 0
        /\ ret.sswEffectIndex >= 0
        /\ ret.effectSumA >= 0
        /\ ret.effectSumB >= 0

\* computeSSW has returned a result in which side B outweighs side A, in the
\* presence histogram and in the hemisphere sums alike, and both indices are
\* positive.
C21_Witness ==
    /\ ret # Null
    /\ SideSum(ret.combined, args.spinDirection + PI \div 2, TRUE)
          < SideSum(ret.combined, args.spinDirection + PI \div 2, FALSE)
    /\ ret.effectSumA < ret.effectSumB
    /\ ret.asymmetryIndex > 0
    /\ ret.sswEffectIndex > 0

\* How many times, over all steps of a call, a seam point lay within epsilon
\* of slice plane s in bin b.
RECURSIVE HitCount(_, _, _, _, _)
HitCount(pts, zPlanes, s, b, nSteps) ==
    IF nSteps = 0 THEN 0
    ELSE Cardinality(PointsIn(pts[nSteps - 1], zPlanes, s, b))
            + HitCount(pts, zPlanes, s, b, nSteps - 1)

\* The weight of slice plane s of a call.
SliceWeight(z, zPlanes, s) ==
    SliceContrib(zPlanes[s], z.zDirectSepStart, z.zInducedZone, z.zInducedStart,
                 z.zInducedEnd)

\* The contribution cells of a result against the points and planes of its call.
ContribPerPoint(res, pts, z, zPlanes) ==
    \A s \in 0..(SSW_SLICE_COUNT - 1), b \in 0..(SSW_BINS - 1) :
        /\ res.contribHistograms[s][b]
              = (HitCount(pts, zPlanes, s, b, SSW_ROTATION_STEPS)
                    * SliceWeight(z, zPlanes, s) * One) \div SSW_ROTATION_STEPS
        /\ res.contribHistograms[s][b] # 0 => res.histograms[s][b] # 0

\* C22: contribution is accumulated per seam point: in every step each seam
\* point within epsilon of slice plane s adds the weight of that plane's
\* height, not of its own height, to the contribution cell of its bin, once
\* per point; after the division by the number of steps a contribution cell
\* is the number of such hits times the plane's weight over the number of
\* steps, and it is non-zero only where the presence cell is non-zero.
C22_ContribPerPoint ==
    ret # Null => ContribPerPoint(ret, PointsOf(args), ZonesOf(args), PlanesOf(args))

\* A cell of a call that holds two or more seam points in one step, one of
\* them at a height whose own weight is not the weight of the slice plane,
\* and whose plane has a weight.
TellingCell(pts, z, zPlanes) ==
    \E s \in 0..(SSW_SLICE_COUNT - 1), b \in 0..(SSW_BINS - 1) :
        /\ SliceWeight(z, zPlanes, s) > 0
        /\ \E step \in 0..(SSW_ROTATION_STEPS - 1) :
              Cardinality(PointsIn(pts[step], zPlanes, s, b)) >= 2
        /\ \E step \in 0..(SSW_ROTATION_STEPS - 1) :
              \E i \in PointsIn(pts[step], zPlanes, s, b) :
                  PointContribution(pts[step][i].p.z, z.zDirectSepStart, z.zInducedZone,
                                    z.zInducedStart, z.zInducedEnd)
                      # SliceWeight(z, zPlanes, s)

\* computeSSW has returned from a call with such a cell, and with a presence
\* cell that is non-zero while its contribution cell is zero.
C22_Witness ==
    /\ ret # Null
    /\ TellingCell(PointsOf(args), ZonesOf(args), PlanesOf(args))
    /\ \E s \in 0..(SSW_SLICE_COUNT - 1), b \in 0..(SSW_BINS - 1) :
          ret.histograms[s][b] # 0 /\ ret.contribHistograms[s][b] = 0

\* Whether a height lies inside the judgment zone of the boundary heights z.
InZone(pz, z) ==
    /\ pz > Min(z.zDirectSepStart, z.zInducedEnd)
    /\ pz < Max(z.zDirectSepStart, z.zInducedEnd)

\* weight(p.z) / N of one rotated seam point q: nothing outside the zone.
ShareOf(q, z) ==
    IF InZone(q.p.z, z)
    THEN (PointContribution(q.p.z, z.zDirectSepStart, z.zInducedZone, z.zInducedStart,
                            z.zInducedEnd) * One) \div SSW_ROTATION_STEPS
    ELSE 0

\* The shares of the first n (step, point) pairs of a call, counted step by
\* step, that fall on side A (onA) or on side B of the judgment line.
RECURSIVE SharesOnSide(_, _, _, _, _)
SharesOnSide(pts, z, judgmentAngle, onA, n) ==
    IF n = 0 THEN 0
    ELSE (IF (Sin(pts[(n - 1) \div SEAM_POINTS][(n - 1) % SEAM_POINTS].ang - judgmentAngle) >= 0) = onA
          THEN ShareOf(pts[(n - 1) \div SEAM_POINTS][(n - 1) % SEAM_POINTS], z)
          ELSE 0)
         + SharesOnSide(pts, z, judgmentAngle, onA, n - 1)

\* The hemisphere sums of a result against the points of its call.
HemisphereSums(res, pts, z, judgmentAngle) ==
    /\ res.effectSumA
          = SharesOnSide(pts, z, judgmentAngle, TRUE, SSW_ROTATION_STEPS * SEAM_POINTS)
    /\ res.effectSumB
          = SharesOnSide(pts, z, judgmentAngle, FALSE, SSW_ROTATION_STEPS * SEAM_POINTS)
    /\ res.sswEffectIndex = Abs(res.effectSumA - res.effectSumB)

\* C23: the hemisphere sums do not depend on the slices: in every step every
\* seam point whose height is inside the judgment zone adds weight(p.z) / N
\* to exactly one of effectSumA (sin(angle - judgmentAngle) >= 0) and
\* effectSumB, near a slice plane or not; a point outside the zone adds
\* nothing; sswEffectIndex is |effectSumA - effectSumB|.
C23_HemisphereSums ==
    ret # Null =>
        HemisphereSums(ret, PointsOf(args), ZonesOf(args), args.spinDirection + PI \div 2)

\* A call in which a point inside the zone with a weight lies within epsilon
\* of no slice plane, and in which another point lies outside the zone.
FarFromPlanes(pts, z, zPlanes) ==
    /\ \E step \in 0..(SSW_ROTATION_STEPS - 1), i \in 0..(SEAM_POINTS - 1) :
          /\ ShareOf(pts[step][i], z) > 0
          /\ \A s \in 0..(SSW_SLICE_COUNT - 1) :
                Abs(pts[step][i].p.z - zPlanes[s]) >= (SEAM_TUBE_RADIUS * 3) \div 2
    /\ \E step \in 0..(SSW_ROTATION_STEPS - 1), i \in 0..(SEAM_POINTS - 1) :
          ~InZone(pts[step][i].p.z, z)

\* computeSSW has returned from such a call with both hemisphere sums
\* positive and different.
C23_Witness ==
    /\ ret # Null
    /\ FarFromPlanes(PointsOf(args), ZonesOf(args), PlanesOf(args))
    /\ ret.effectSumA > 0
    /\ ret.effectSumB > 0
    /\ ret.effectSumA # ret.effectSumB

\* C24: every bin index the sampler writes at lies in 0..B-1: for every
\* angle atan2 returns, negative angles raised by 2 PI, the bin
\* floor(angle / (2 PI) * B) mod B is one of the B cells of the slice, so the
\* index s * B + bin stays in the row of slice s of the flat array.
C24_BinInRange ==
    ret # Null =>
        /\ ret.bin \in 0..(SSW_BINS - 1)
        /\ \A s \in 0..(SSW_SLICE_COUNT - 1) :
              /\ ret.idx[s] >= s * SSW_BINS
              /\ ret.idx[s] < (s + 1) * SSW_BINS
              /\ ret.idx[s] \div SSW_BINS = s

\* The bin has been computed for a negative angle whose sum with 2 PI is
\* 2 PI itself: the quotient is B, and the bin is 0.
C24_Witness ==
    /\ ret # Null
    /\ args.atan2 < 0
    /\ ret.ang = 2 * PI
    /\ (ret.ang * SSW_BINS) \div (2 * PI) = SSW_BINS
    /\ ret.bin = 0

\* The clock texts: an hour 1..12 without a leading zero, a colon, a minute
\* 00..59 of two digits.
ClockTexts ==
    {(IF h >= 10 THEN <<"1">> ELSE <<>>)
        \o <<<<"0", "1", "2", "3", "4", "5", "6", "7", "8", "9">>[(h % 10) + 1]>>
        \o <<":">>
        \o <<<<"0", "1", "2", "3", "4", "5">>[(m \div 10) + 1]>>
        \o <<<<"0", "1", "2", "3", "4", "5", "6", "7", "8", "9">>[(m % 10) + 1]>> :
            h \in 1..12, m \in 0..59}

\* C25: for every angle angleToClockString gives an hour in 1..12, 12
\* standing for hour 0, and a minute of two digits in 00..59; angles that
\* differ by a multiple of 2 PI give the same text; the angle 0 gives 6:00,
\* PI / 2 gives 3:00, PI gives 12:00 and 3 PI / 2 gives 9:00.
C25_ClockMapping ==
    ret # Null =>
        /\ ret \in ClockTexts
        /\ \A k \in (-MaxTurns)..MaxTurns : angleToClockString(args.angle + k * 2 * PI) = ret
        /\ args.angle % (2 * PI) = 0 => ret = <<"6", ":", "0", "0">>
        /\ args.angle % (2 * PI) = PI \div 2 => ret = <<"3", ":", "0", "0">>
        /\ args.angle % (2 * PI) = PI => ret = <<"1", "2", ":", "0", "0">>
        /\ args.angle % (2 * PI) = (3 * PI) \div 2 => ret = <<"9", ":", "0", "0">>

\* angleToClockString has returned for the angle PI less a turn: the text is
\* that of hour 0, 12:00.
C25_Witness ==
    /\ ret # Null
    /\ args.angle = PI - 2 * PI
    /\ ret = <<"1", "2", ":", "0", "0">>

\* C26: the in-flight flag follows the primary worker: isComputing is true
\* in every state in which a primary request has been posted and its result
\* has not been received, the time between the kick-off request and the
\* worker's 'ready' message included.
C26_InFlightFlag == OutstandingPrimary > 0 => isComputing

\* C27: the mirror map is an involution of the bins: for every judgment bin
\* L, below 0 and from B on included, and every bin i in 0..B-1, the
\* counterpart ((2L - i) mod B + B) mod B lies in 0..B-1 and its own
\* counterpart is i.
C27_MirrorInvolution ==
    ret # Null =>
        /\ ret.j \in 0..(SSW_BINS - 1)
        /\ ret.jj = args.i

\* The counterpart has been computed for a judgment bin below 0 whose first
\* remainder is negative.
C27_Witness ==
    /\ ret # Null
    /\ ret.L_bin < 0
    /\ JsRem(2 * ret.L_bin - args.i, SSW_BINS) < 0
    /\ ret.j # args.i

\* C28: the mirror map agrees with the side split: for every judgment angle
\* and every bin i whose counterpart is another bin, bin i and its
\* counterpart lie on opposite sides of the judgment line by the test
\* sin(binAngle - judgmentAngle) >= 0 of the asymmetry index.
C28_MirrorOppositeSides ==
    (ret # Null /\ ret.j # args.i) => ret.sideI # ret.sideJ

\* The sides have been taken for a judgment angle that lies between two bin
\* angles, and a bin whose counterpart is another bin.
C28_Witness ==
    /\ ret # Null
    /\ ret.j # args.i
    /\ (args.judgmentAngle * SSW_BINS) % (2 * PI) # 0
    /\ ret.sideI
    /\ ~ret.sideJ

\* C29: the zone test is strict at the bounds of the judgment zone, a
\* height equal to the zone minimum or maximum has weight 0, so the first
\* slice plane, at the zone minimum, and the last slice plane, at the zone
\* maximum, have weight 0 and their contribution histograms are zero in
\* every cell, for every parameter set.
C29_EndPlanesWeightless ==
    ret # Null =>
        /\ ret.sliceContrib[0] = 0
        /\ ret.sliceContrib[SSW_SLICE_COUNT - 1] = 0

\* The keys the callback returns early for.
PassiveKeys == {"playPause", "pitcherView", "catcherView", "spinRate", "visibleSeam",
                "visibleContrib"}

\* What a UI event of a passive key leaves as it is.
PassiveFrame ==
    UNCHANGED <<updateSSW, updateCurve, needsMainUpdate, isComputing, pendingRequest,
                lastCurveParams, sswPosted, curvePosted, sswInbox, curveInbox, issued>>

\* C30: a UI event with key playPause, pitcherView, catcherView, spinRate,
\* visibleSeam or visibleContrib posts no primary request and no sweep and
\* leaves the update flags, the in-flight flag, the pending slot and the
\* sweep key as they are; every other change event marks a primary update,
\* and marks a sweep update only when its type is 'committed' or absent.
C30_PassiveEvents ==
    [][/\ \A key \in PassiveKeys : OtherChange(key) => PassiveFrame
       /\ \A key \in OtherKeys \ PassiveKeys :
             OtherChange(key) => (updateSSW' /\ needsMainUpdate' /\ updateCurve')
       /\ \A s \in ChangeKeys, v \in SliderValues :
             /\ SliderChange(s, v, "committed")
                   => (updateSSW' /\ needsMainUpdate' /\ updateCurve')
             /\ SliderChange(s, v, "live")
                   => (updateSSW' /\ needsMainUpdate' /\ updateCurve' = updateCurve)]_vars

\* Every UI event so far had a passive key: the events the model allows
\* have all happened, the kick-off request is the only one ever issued, and
\* no update is marked.
C30_Witness ==
    /\ nChanges = MaxChanges
    /\ issued = 1
    /\ ~updateSSW
    /\ ~updateCurve
    /\ ~needsMainUpdate
    /\ pendingRequest = Null

====
